---- MODULE Spec2Model ----
(***************************************************************************)
(* A model of claude-mcp-rs: the bridge that runs the Claude CLI as a      *)
(* child process, drains its stdout (stream-json) and stderr, and returns  *)
(* one ClaudeResult.                                                       *)
(*                                                                         *)
(* Four components are modelled, each with its own specification over     *)
(* its own variables (the others stay at their idle values):               *)
(*   SpecReader  read_line_with_limit over a byte stream (claude.rs 159)   *)
(*   SpecCfg     the cached process-wide configuration and the timeout     *)
(*               that run resolves (claude.rs 48-119, 204-211)             *)
(*   Spec        one invocation of run / run_internal (claude.rs 204-597)  *)
(*   SpecCaps    one invocation whose child reaches the size ceilings of   *)
(*               agent_messages and all_messages (profile "caps")          *)
(*   SpecStderr  one invocation whose child overflows the stderr ceiling   *)
(*               (profile "stderr")                                        *)
(*   SpecFair    one invocation under a fair timer, with a child that      *)
(*               writes fewer kinds of lines (profile "fair")              *)
(*   SpecDrain   the same invocation with its two readers scheduled        *)
(*   SpecLate    one invocation whose child is a line ahead of the reader  *)
(*               (profile "late")                                          *)
(*   SpecSkip    one invocation whose child writes blank lines and JSON    *)
(*               values that are no objects (profile "skip")               *)
(*   SpecTool    one call of the claude tool (server.rs 72-175) and the    *)
(*               command line of the child (claude.rs 248-264)             *)
(*                                                                         *)
(* Strings are sequences of characters; a literal of the source is kept    *)
(* as one element (a TLA+ string), a character of variable text is one     *)
(* element too, so len() is Len.  Option<T> is a sequence of length 0      *)
(* (None) or 1 (Some).                                                     *)
(***************************************************************************)
EXTENDS Integers, Sequences, FiniteSets, TLC

VARIABLES
    \* ---- read_line_with_limit ----
    rl_stream,      \* the bytes the underlying stream will deliver
    rl_pos,         \* the number of bytes consumed from the reader
    rl_max_len,     \* max_len
    rl_buf,         \* buf, the caller's line buffer
    rl_total_read,  \* total_read
    rl_truncated,   \* truncated
    rl_pc,          \* "idle" (between calls) or "loop" (inside the loop)
    rl_ret,         \* the last return value of the function
    rl_start,       \* the reader position when the current/last call began
    \* ---- process-wide configuration ----
    cfg_file,       \* what the config path holds now
    SERVER_CONFIG,  \* OnceLock<ServerConfig>
    CACHED_TIMEOUT, \* OnceLock<u64>
    run_opts,       \* opts.timeout_secs of the last call of run
    run_deadline,   \* the timeout_secs that call handed to tokio::time::timeout
    cfg_loaded,     \* history: the file as load_server_config found it
    \* ---- one invocation of run ----
    run_pc,         \* where run_internal is: start, stdout, wait, join, done
    returned,       \* how run ended: none, Ok, Err, dropped
    timed_out,      \* whether the Ok result is the timeout branch's
    ret,            \* the ClaudeResult run returned
    result,         \* run_internal's `result` while stdout is processed
    reconciled,     \* `result` as handed to enforce_required_fields
    parse_error_seen,
    all_messages_size,
    lines_read,     \* history: the lines the stdout loop has read, in order
    child,          \* the child process: state and exit status
    out_pipe,       \* stdout lines written and not yet read
    out_closed,     \* the write end of stdout is closed
    out_written,    \* how many stdout lines the child has written
    err_pipe,       \* stderr lines written and not yet read
    err_closed,
    err_written,
    profile,        \* which lines the child of this specification may write
    stderr_pc,      \* the stderr task: none, loop, done, failed
    stderr_output,  \* the task's accumulated text
    stderr_truncated,
    \* ---- the claude tool of the server ----
    tool_pc,        \* start, running, responded, invalid_params, internal_error
    tool_args,      \* the ClaudeArgs of the call
    tool_opts,      \* Option<Options>: what the tool hands to run
    child_argv,     \* the argument vector of the spawned child
    tool_result,    \* Option<ClaudeResult>: what run returned
    tool_response   \* what the tool answers

rlvars == <<rl_stream, rl_pos, rl_max_len, rl_buf, rl_total_read, rl_truncated,
            rl_pc, rl_ret, rl_start>>
cfgvars == <<cfg_file, SERVER_CONFIG, CACHED_TIMEOUT, run_opts, run_deadline,
            cfg_loaded>>
runvars == <<run_pc, returned, timed_out, ret, result, reconciled,
             parse_error_seen, all_messages_size, lines_read>>
childvars == <<child, out_pipe, out_closed, out_written, err_pipe, err_closed,
               err_written, profile>>
stderrvars == <<stderr_pc, stderr_output, stderr_truncated>>
pvars == <<runvars, childvars, stderrvars>>
toolvars == <<tool_pc, tool_args, tool_opts, child_argv, tool_result, tool_response>>
vars == <<rlvars, cfgvars, pvars, toolvars>>

(***************************************************************************)
(* Option<T> and strings                                                   *)
(***************************************************************************)
None == <<>>
Some(x) == <<x>>
IsSome(o) == Len(o) = 1
IsNone(o) == Len(o) = 0
Unwrap(o) == o[1]

Min(a, b) == IF a < b THEN a ELSE b

\* str::contains: t occurs in s as a contiguous substring
Contains(s, t) ==
    \E i \in 0..(Len(s) - Len(t)) : SubSeq(s, i + 1, i + Len(t)) = t

\* All sequences over S of length at most n
SeqUpTo(S, n) == UNION {[1..k -> S] : k \in 0..n}

(***************************************************************************)
(* read_line_with_limit                                                    *)
(***************************************************************************)
NL == 10        \* b'\n'
Bytes == {NL, 97}   \* a newline and a byte that is none

MaxStreamLen == 5   \* longest byte stream fed to the reader
MaxChunk == 3       \* most bytes one fill_buf hands out
MaxCap == 3         \* largest max_len tried

\* `if !truncated && buf.len() < max_len` (mutant: <=, one byte too many)
CanPushOffByOne(trunc, buflen, max_len) == ~trunc /\ buflen <= max_len
CanPush(trunc, buflen, max_len) == ~trunc /\ buflen < max_len

\* `total_read += 1`, done only for a byte that was pushed (lines 176-178)
\* (mutant: every byte seen is counted)
CountByteAlways(push, total) == total + 1
CountByte(push, total) == IF push THEN total + 1 ELSE total

\* `reader.consume(i + 1)` at the newline found at 0-based index i0
\* (mutant: the newline itself is left in the reader)
ConsumeAtNewlineShort(i0) == i0
ConsumeAtNewline(i0) == i0 + 1

\* The `for (i, &byte) in available.iter().enumerate()` loop, from the
\* 1-based index i on.  Returns the locals and, when a newline ended the
\* call, how many bytes were consumed.
RECURSIVE ScanBytes(_, _, _, _, _, _)
ScanBytes(available, i, b, total, trunc, max_len) ==
    IF i > Len(available)
    THEN [buf |-> b, total_read |-> total, truncated |-> trunc,
          newline |-> FALSE, consumed |-> Len(available)]
    ELSE LET byte == available[i]
             push == CanPush(trunc, Len(b), max_len)
             b2 == IF push THEN Append(b, byte) ELSE b
             total2 == CountByte(push, total)
             trunc2 == IF push THEN trunc ELSE TRUE
         IN IF byte = NL
            THEN [buf |-> b2, total_read |-> total2, truncated |-> trunc2,
                  newline |-> TRUE, consumed |-> ConsumeAtNewline(i - 1)]
            ELSE ScanBytes(available, i + 1, b2, total2, trunc2, max_len)

ReadLineResult(n, t) == [kind |-> "Ok", bytes_read |-> n, truncated |-> t]
\* The return after the loop was left at the end of the stream: what was
\* read of a record without newline is handed back (lines 196-199)
\* (mutant: the partial record is reported as an empty read)
EofResultDropsPartial(total, trunc) == ReadLineResult(0, FALSE)
EofResult(total, trunc) == ReadLineResult(total, trunc)
ReadLineErr == [kind |-> "Err", bytes_read |-> 0, truncated |-> FALSE]
NoReturn == [kind |-> "none", bytes_read |-> 0, truncated |-> FALSE]

InitReaderIdle ==
    /\ rl_stream = <<>>
    /\ rl_pos = 0
    /\ rl_max_len = 0
    /\ rl_buf = <<>>
    /\ rl_total_read = 0
    /\ rl_truncated = FALSE
    /\ rl_pc = "idle"
    /\ rl_ret = NoReturn
    /\ rl_start = 0

InitReader ==
    /\ rl_stream \in SeqUpTo(Bytes, MaxStreamLen)
    /\ rl_max_len \in 1..MaxCap   \* both callers pass MAX_LINE_LENGTH, a positive constant
    /\ rl_pos = 0
    /\ rl_buf = <<>>
    /\ rl_total_read = 0
    /\ rl_truncated = FALSE
    /\ rl_pc = "idle"
    /\ rl_ret = NoReturn
    /\ rl_start = 0

\* The caller's `line_buf.clear()` and the entry of read_line_with_limit.
\* Both callers stop calling after an error or a zero bytes_read.
RL_Call ==
    /\ rl_pc = "idle"
    /\ rl_ret.kind = "none" \/ (rl_ret.kind = "Ok" /\ rl_ret.bytes_read > 0)
    /\ rl_buf' = <<>>
    /\ rl_total_read' = 0
    /\ rl_truncated' = FALSE
    /\ rl_start' = rl_pos
    /\ rl_pc' = "loop"
    /\ UNCHANGED <<rl_stream, rl_pos, rl_max_len, rl_ret>>
    /\ UNCHANGED <<toolvars, cfgvars, pvars>>

\* One iteration of the loop in which fill_buf returns k >= 1 bytes
RL_Fill ==
    /\ rl_pc = "loop"
    /\ rl_pos < Len(rl_stream)
    /\ \E k \in 1..Min(MaxChunk, Len(rl_stream) - rl_pos) :
         LET available == SubSeq(rl_stream, rl_pos + 1, rl_pos + k)
             r == ScanBytes(available, 1, rl_buf, rl_total_read, rl_truncated,
                            rl_max_len)
         IN /\ rl_buf' = r.buf
            /\ rl_total_read' = r.total_read
            /\ rl_truncated' = r.truncated
            /\ rl_pos' = rl_pos + r.consumed
            /\ IF r.newline
               THEN /\ rl_pc' = "idle"
                    /\ rl_ret' = ReadLineResult(r.total_read, r.truncated)
               ELSE /\ rl_pc' = "loop"
                    /\ UNCHANGED rl_ret
    /\ UNCHANGED <<rl_stream, rl_max_len, rl_start>>
    /\ UNCHANGED <<toolvars, cfgvars, pvars>>

\* The iteration in which fill_buf returns an empty slice: end of stream
RL_Eof ==
    /\ rl_pc = "loop"
    /\ rl_pos = Len(rl_stream)
    /\ rl_pc' = "idle"
    /\ rl_ret' = EofResult(rl_total_read, rl_truncated)
    /\ UNCHANGED <<rl_stream, rl_pos, rl_max_len, rl_buf, rl_total_read,
                   rl_truncated, rl_start>>
    /\ UNCHANGED <<toolvars, cfgvars, pvars>>

\* `reader.fill_buf().await?` fails: the error is returned to the caller
RL_IoError ==
    /\ rl_pc = "loop"
    /\ rl_pc' = "idle"
    /\ rl_ret' = ReadLineErr
    /\ UNCHANGED <<rl_stream, rl_pos, rl_max_len, rl_buf, rl_total_read,
                   rl_truncated, rl_start>>
    /\ UNCHANGED <<toolvars, cfgvars, pvars>>

NextReader ==
    \/ RL_Call
    \/ RL_Fill
    \/ RL_Eof
    \/ RL_IoError

(***************************************************************************)
(* Process-wide configuration (claude-mcp.config.json) and the timeout     *)
(* that run resolves                                                       *)
(***************************************************************************)
DEFAULT_TIMEOUT_SECS == 600
MAX_TIMEOUT_SECS == 3600

MaxCfgArgs == 1     \* most entries of additional_args in a config file

\* str::trim on a string whose only whitespace character is " "
RECURSIVE TrimStart(_)
TrimStart(s) == IF s /= <<>> /\ Head(s) = " " THEN TrimStart(Tail(s)) ELSE s
RECURSIVE TrimEnd(_)
TrimEnd(s) ==
    IF s /= <<>> /\ s[Len(s)] = " " THEN TrimEnd(SubSeq(s, 1, Len(s) - 1)) ELSE s
Trim(s) == TrimEnd(TrimStart(s))

\* `.map(|s| s.trim().to_string()).filter(|s| !s.is_empty()).collect()`
RECURSIVE CleanArgs(_)
CleanArgs(args) ==
    IF args = <<>> THEN <<>>
    ELSE LET t == Trim(Head(args))
         IN IF t = <<>> THEN CleanArgs(Tail(args))
            ELSE <<t>> \o CleanArgs(Tail(args))

\* What a config file may say.  timeout_secs is None when the key is absent
\* or null; a negative number is valid JSON but no u64.
RawArgStrings == {<<" ">>, <<"a">>, <<" ", "a", " ">>}
RawTimeouts == {None, Some(0 - 1), Some(0), Some(5), Some(3600), Some(3601)}
CfgJson ==
    [state : {"json"},
     additional_args : SeqUpTo(RawArgStrings, MaxCfgArgs),
     timeout_secs : RawTimeouts]
CfgNoJson ==
    [state : {"nofile", "unreadable", "garbage"},
     additional_args : {<<>>},
     timeout_secs : {None}]
CfgFiles == CfgJson \cup CfgNoJson

ServerConfig(args, t) == [additional_args |-> args, timeout_secs |-> t]

\* serde_json::from_str::<ServerConfig>: None stands for Err
ParseServerConfig(file) ==
    IF file.state /= "json" THEN None
    ELSE IF IsSome(file.timeout_secs) /\ Unwrap(file.timeout_secs) < 0 THEN None
    ELSE Some(ServerConfig(file.additional_args, file.timeout_secs))

\* load_server_config
LoadServerConfig(file) ==
    LET cfg == ServerConfig(<<>>, None)
    IN IF file.state \in {"nofile", "unreadable"} THEN cfg
       ELSE LET parsed == ParseServerConfig(file)
            IN IF IsSome(parsed)
               THEN ServerConfig(CleanArgs(Unwrap(parsed).additional_args),
                                 Unwrap(parsed).timeout_secs)
               ELSE cfg

\* SERVER_CONFIG.get_or_init(load_server_config): the cell after the call
ServerConfigCell(cell, file) ==
    IF IsSome(cell) THEN cell ELSE Some(LoadServerConfig(file))

\* The match of default_timeout_secs on cfg.timeout_secs
\* (mutant: the ceiling test is missing, every positive value is kept)
TimeoutFromConfigNoCeiling(t) ==
    IF IsSome(t) /\ Unwrap(t) > 0 THEN Unwrap(t) ELSE DEFAULT_TIMEOUT_SECS
TimeoutFromConfig(t) ==
    IF IsSome(t) /\ Unwrap(t) > 0 /\ Unwrap(t) <= MAX_TIMEOUT_SECS THEN Unwrap(t)
    ELSE IF IsSome(t) /\ Unwrap(t) > MAX_TIMEOUT_SECS THEN MAX_TIMEOUT_SECS
    ELSE DEFAULT_TIMEOUT_SECS

\* CACHED_TIMEOUT.get_or_init(..): the cell after the call
CachedTimeoutCell(tcell, cell, file) ==
    IF IsSome(tcell) THEN tcell
    ELSE Some(TimeoutFromConfig(Unwrap(ServerConfigCell(cell, file)).timeout_secs))

\* run, lines 206-210: the seconds handed to Duration::from_secs
ResolveTimeout(opt_timeout, default_secs) ==
    IF IsNone(opt_timeout) THEN default_secs ELSE Unwrap(opt_timeout)

OptTimeouts == {None, Some(0), Some(10), Some(4000)}

\* History: the file a call found when it initialized SERVER_CONFIG
LoadedFrom(cell_before, cell_after, file, loaded) ==
    IF IsNone(cell_before) /\ IsSome(cell_after) THEN Some(file) ELSE loaded

InitCfgIdle ==
    /\ cfg_file = [state |-> "nofile", additional_args |-> <<>>, timeout_secs |-> None]
    /\ SERVER_CONFIG = None
    /\ CACHED_TIMEOUT = None
    /\ run_opts = None
    /\ run_deadline = None
    /\ cfg_loaded = None

InitCfg ==
    /\ cfg_file \in CfgFiles
    /\ SERVER_CONFIG = None
    /\ CACHED_TIMEOUT = None
    /\ run_opts = None
    /\ run_deadline = None
    /\ cfg_loaded = None

\* The environment rewrites, removes or corrupts the config file
CfgFileChange ==
    /\ cfg_file' \in CfgFiles
    /\ UNCHANGED <<SERVER_CONFIG, CACHED_TIMEOUT, run_opts, run_deadline, cfg_loaded>>
    /\ UNCHANGED <<toolvars, rlvars, pvars>>

\* default_additional_args()
CfgDefaultAdditionalArgs ==
    /\ SERVER_CONFIG' = ServerConfigCell(SERVER_CONFIG, cfg_file)
    /\ cfg_loaded' = LoadedFrom(SERVER_CONFIG, SERVER_CONFIG', cfg_file, cfg_loaded)
    /\ UNCHANGED <<cfg_file, CACHED_TIMEOUT, run_opts, run_deadline>>
    /\ UNCHANGED <<toolvars, rlvars, pvars>>

\* The first lines of run: the timeout it will enforce
CfgRun ==
    \E o \in OptTimeouts :
        LET needs_default == IsNone(o)
            tcell == IF needs_default
                     THEN CachedTimeoutCell(CACHED_TIMEOUT, SERVER_CONFIG, cfg_file)
                     ELSE CACHED_TIMEOUT
            cell == IF needs_default /\ IsNone(CACHED_TIMEOUT)
                    THEN ServerConfigCell(SERVER_CONFIG, cfg_file)
                    ELSE SERVER_CONFIG
        IN /\ run_opts' = Some(o)
           /\ CACHED_TIMEOUT' = tcell
           /\ SERVER_CONFIG' = cell
           /\ run_deadline' =
                Some(ResolveTimeout(o, IF needs_default THEN Unwrap(tcell)
                                       ELSE DEFAULT_TIMEOUT_SECS))
           /\ cfg_loaded' = LoadedFrom(SERVER_CONFIG, cell, cfg_file, cfg_loaded)
           /\ UNCHANGED cfg_file
           /\ UNCHANGED <<toolvars, rlvars, pvars>>

NextCfg ==
    \/ CfgFileChange
    \/ CfgDefaultAdditionalArgs
    \/ CfgRun

(***************************************************************************)
(* One invocation of run: data                                             *)
(***************************************************************************)
MAX_AGENT_MESSAGES_SIZE == 3  \* the 10MB ceiling of the source, scaled down
MAX_ALL_MESSAGES_SIZE == 3    \* the 50MB ceiling of the source, scaled down
MAX_STDERR_SIZE == 2          \* the 1MB ceiling of the source, scaled down
MaxLines == 2       \* most stdout lines the child writes
MaxErrLines == 1    \* most stderr lines the child writes
PipeCap == 1        \* lines a pipe holds before the child blocks on write

\* ---- the messages the source formats ----
LineTruncatedMsg ==
    <<"Output line exceeded 1048576 byte limit and was truncated, cannot parse JSON.">>
ParseErrorMsg(error, line) == <<"JSON parse error: ">> \o error \o <<". Line: ">> \o line
ClaudeErrorMsg(text) == <<"Claude error: ">> \o text
\* {:?} of status.code(), an Option<i32>
DebugCode(code) ==
    IF IsNone(code) THEN <<"None">> ELSE <<"Some(", ToString(Unwrap(code)), ")">>
ExitCodeMsg(code) == <<"claude command failed with exit code: ">> \o DebugCode(code)
TimeoutMsg(secs) == <<"Claude execution timed out after ", ToString(secs), " seconds">>
SessionIdMsg == <<"Failed to get SESSION_ID from the Claude session.">>
NoAgentMessagesMsg ==
    <<"No agent_messages returned; check Claude CLI output or enable richer logging if needed.">>
AgentTruncatedMarker == <<"\n[... Agent messages truncated due to size limit ...]">>
StderrTruncatedMarker == <<"[... stderr truncated due to size limit ...]">>
StderrLabel == <<"\nStderr: ">>
NewLine == <<"\n">>
JsonSyntaxError == <<"expected value at line 1 column 1">>
IoErrorText == <<"io error">>

\* ---- ClaudeResult ----
ClaudeResult(success, sid, agent, agent_trunc, all, all_trunc, error, warnings) ==
    [success |-> success, session_id |-> sid,
     agent_messages |-> agent, agent_messages_truncated |-> agent_trunc,
     all_messages |-> all, all_messages_truncated |-> all_trunc,
     error |-> error, warnings |-> warnings]

\* The value run_internal starts from (lines 279-288)
InitialResult == ClaudeResult(TRUE, <<>>, <<>>, FALSE, <<>>, FALSE, None, None)

\* The value the timeout branch of run builds (lines 217-229)
TimeoutResult(secs) ==
    ClaudeResult(FALSE, <<>>, <<>>, FALSE, <<>>, FALSE, Some(TimeoutMsg(secs)), None)

\* ---- what the child may write on stdout ----
\* A JSON object line, reduced to the fields the code looks at.  type_ is the
\* string under "type" ("none": absent or no string); sid_kind, result_kind
\* say whether the field is absent, a string or another JSON value;
\* content_kind is "arr" when message.content is an array; size is the
\* length of the object's serialization.
Block(btype, text_kind, text) == [btype |-> btype, text_kind |-> text_kind, text |-> text]
TextBlock(text) == Block("text", "str", text)
Event(type_, sid_kind, sid, content_kind, content, result_kind, res, is_error, size) ==
    [type_ |-> type_, sid_kind |-> sid_kind, session_id |-> sid,
     content_kind |-> content_kind, content |-> content,
     result_kind |-> result_kind, result |-> res, is_error |-> is_error,
     size |-> size]
NullEvent == Event("none", "absent", <<>>, "absent", <<>>, "absent", <<>>, "absent", 0)

Line(kind, text, ev) == [kind |-> kind, text |-> text, ev |-> ev]
ObjectLine(ev) == Line("object", <<>>, ev)

LTruncated == Line("truncated", <<>>, NullEvent)   \* longer than MAX_LINE_LENGTH
LBlank == Line("blank", <<>>, NullEvent)           \* empty once \n and \r are cut
LBadJson == Line("badjson", <<"x">>, NullEvent)    \* text that is no JSON
LNonObject == Line("nonobject", <<"7">>, NullEvent) \* JSON, but no object

LAssistant ==
    ObjectLine(Event("assistant", "str", <<"s">>, "arr", <<TextBlock(<<"a">>)>>,
                     "absent", <<>>, "absent", 1))
LAssistantBlocks ==
    ObjectLine(Event("assistant", "absent", <<>>, "arr",
                     <<TextBlock(<<"a">>), Block("tool_use", "absent", <<>>),
                       TextBlock(<<>>), TextBlock(<<"b", "b">>), TextBlock(<<"a">>)>>,
                     "absent", <<>>, "absent", 2))
LResult ==
    ObjectLine(Event("result", "str", <<"s">>, "absent", <<>>, "str", <<"a">>,
                     "false", 1))
LResultLong ==
    ObjectLine(Event("result", "absent", <<>>, "absent", <<>>, "str",
                     [i \in 1..MAX_AGENT_MESSAGES_SIZE |-> "b"], "false", 1))
LResultError ==
    ObjectLine(Event("result", "str", <<"t">>, "absent", <<>>, "str", <<"b">>,
                     "true", 1))
LResultErrorNoSid ==
    ObjectLine(Event("result", "absent", <<>>, "absent", <<>>, "str", <<"c">>,
                     "true", 1))
LResultErrorNoText ==
    ObjectLine(Event("result", "str", <<"s">>, "absent", <<>>, "absent", <<>>,
                     "true", 1))
LSystem ==
    ObjectLine(Event("system", "str", <<"t">>, "absent", <<>>, "absent", <<>>,
                     "absent", 2))
LEmptySid ==
    ObjectLine(Event("none", "str", <<>>, "absent", <<>>, "absent", <<>>,
                     "absent", 1))
LBig ==
    ObjectLine(Event("system", "nonstr", <<>>, "absent", <<>>, "nonstr", <<>>,
                     "nonbool", MAX_ALL_MESSAGES_SIZE + 1))

\* A result event that reports an error and is larger than the ceiling of
\* the raw-event collection
LBigResultError ==
    ObjectLine(Event("result", "str", <<"t">>, "absent", <<>>, "str", <<"b">>,
                     "true", MAX_ALL_MESSAGES_SIZE + 1))

\* The lines a child may write on stdout, by profile: "run" has every kind
\* of failure and of session id, "caps" the events that reach the two size
\* ceilings, "stderr" one event, "late" failing lines and events that would
\* change the result after them, "skip" blank lines and JSON values that
\* are no objects among events, "fair" a line that parses and one that
\* does not
StdoutLines(p) ==
    IF p = "run"
    THEN {LTruncated, LBadJson, LNonObject, LAssistant, LResult, LResultError,
          LResultErrorNoSid, LResultErrorNoText, LSystem, LEmptySid}
    ELSE IF p = "caps"
    THEN {LBig, LSystem, LAssistant, LAssistantBlocks, LResult, LNonObject,
          LEmptySid, LResultLong, LBigResultError}
    ELSE IF p = "stderr"
    THEN {LAssistant}
    ELSE IF p = "skip"
    THEN {LBlank, LNonObject, LAssistant, LResultError}
    ELSE IF p = "late"
    THEN {LBadJson, LTruncated, LAssistant, LAssistantBlocks, LBig}
    ELSE {LAssistant, LBadJson}

\* stderr lines, already cut of their line ending
StderrLines(p) == IF p = "stderr" THEN {<<"e">>, <<"e", "e">>} ELSE {<<"e">>}

\* How many lines the child of a profile writes at most: the "stderr"
\* child writes one stdout line less and one stderr line more
\* What the stdout pipe holds before the child blocks: in the profile
\* "late" the child can have written a further line by the time the first
\* one is read
StdoutPipeCap(p) == IF p = "late" THEN PipeCap + 1 ELSE PipeCap
StdoutLineLimit(p) == IF p = "stderr" THEN MaxLines - 1 ELSE MaxLines
StderrLineLimit(p) == IF p = "stderr" THEN MaxErrLines + 1 ELSE MaxErrLines

\* ---- the child's exit status ----
ExitStatus(code) == [success |-> (code = Some(0)), code |-> code]
ExitCodes == {0, 2}
KilledStatus == ExitStatus(None)    \* ended by a signal: code() is None

(***************************************************************************)
(* One invocation of run: the functions                                    *)
(***************************************************************************)
\* record_parse_error
\* (mutant: the diagnostic replaces the error recorded so far)
RecordParseErrorOverwrites(r, error, line) ==
    [r EXCEPT !.success = FALSE, !.error = Some(ParseErrorMsg(error, line))]
RecordParseError(r, error, line) ==
    LET parse_msg == ParseErrorMsg(error, line)
    IN [r EXCEPT !.success = FALSE,
                 !.error = IF IsSome(r.error) /\ Unwrap(r.error) /= <<>>
                           THEN Some(Unwrap(r.error) \o NewLine \o parse_msg)
                           ELSE Some(parse_msg)]

\* push_warning
PushWarning(existing, warning) ==
    IF IsSome(existing)
    THEN Some((IF Unwrap(existing) /= <<>> THEN Unwrap(existing) \o NewLine
               ELSE Unwrap(existing)) \o warning)
    ELSE Some(warning)

\* The session id check of enforce_required_fields (lines 585-588)
\* (mutants: the check is left out; the check fires whether or not an error
\* is already set)
SessionIdCheckSkipped(r) == r
SessionIdCheckAlways(r) ==
    IF r.session_id = <<>>
    THEN [r EXCEPT !.success = FALSE, !.error = Some(SessionIdMsg)]
    ELSE r
SessionIdCheck(r) ==
    IF r.session_id = <<>> /\ IsNone(r.error)
    THEN [r EXCEPT !.success = FALSE, !.error = Some(SessionIdMsg)]
    ELSE r

\* The agent_messages check of enforce_required_fields (lines 590-594)
\* (mutant: missing text is reported as a failure instead of a warning)
AgentMessagesCheckAsError(r) ==
    IF r.agent_messages = <<>>
    THEN [r EXCEPT !.success = FALSE, !.error = Some(NoAgentMessagesMsg)]
    ELSE r
AgentMessagesCheck(r) ==
    IF r.agent_messages = <<>>
    THEN [r EXCEPT !.warnings = PushWarning(r.warnings, NoAgentMessagesMsg)]
    ELSE r

\* enforce_required_fields; mode is "Full" or "Skip"
\* (mutant: the mode is ignored and every result is validated)
EnforceRequiredFieldsNoSkip(r, mode) == AgentMessagesCheck(SessionIdCheck(r))
EnforceRequiredFields(r, mode) ==
    IF mode = "Skip" THEN r ELSE AgentMessagesCheck(SessionIdCheck(r))

\* The text accumulation rule (lines 443-459, repeated at 470-486)
\* (mutant: the marker is pushed every time a text does not fit)
AppendAgentTextRepeatsMarker(r, text) ==
    LET new_size == Len(r.agent_messages) + Len(text)
    IN IF new_size > MAX_AGENT_MESSAGES_SIZE
       THEN [r EXCEPT !.agent_messages = @ \o AgentTruncatedMarker,
                      !.agent_messages_truncated = TRUE]
       ELSE IF ~r.agent_messages_truncated
            THEN [r EXCEPT !.agent_messages =
                     (IF @ /= <<>> /\ text /= <<>> THEN @ \o NewLine ELSE @) \o text]
            ELSE r
AppendAgentText(r, text) ==
    LET new_size == Len(r.agent_messages) + Len(text)
    IN IF new_size > MAX_AGENT_MESSAGES_SIZE
       THEN IF ~r.agent_messages_truncated
            THEN [r EXCEPT !.agent_messages = @ \o AgentTruncatedMarker,
                           !.agent_messages_truncated = TRUE]
            ELSE r
       ELSE IF ~r.agent_messages_truncated
            THEN [r EXCEPT !.agent_messages =
                     (IF @ /= <<>> /\ text /= <<>> THEN @ \o NewLine ELSE @) \o text]
            ELSE r

\* `for block in content` of an assistant event (lines 436-462)
RECURSIVE AppendBlocks(_, _)
AppendBlocks(r, blocks) ==
    IF blocks = <<>> THEN r
    ELSE LET block == Head(blocks)
             r2 == IF block.btype = "text" /\ block.text_kind = "str"
                   THEN AppendAgentText(r, block.text)
                   ELSE r
         IN AppendBlocks(r2, Tail(blocks))

\* The `is_error` part of a result event (lines 491-502)
\* (mutants: a result event without is_error makes the run successful
\* again; the error text is recorded but success is left alone)
ApplyIsErrorResets(r, ev) ==
    IF ev.is_error = "true"
    THEN LET r2 == [r EXCEPT !.success = FALSE]
         IN IF ev.result_kind = "str"
            THEN [r2 EXCEPT !.error = Some(ClaudeErrorMsg(ev.result))]
            ELSE r2
    ELSE [r EXCEPT !.success = TRUE]
ApplyIsErrorKeepSuccess(r, ev) ==
    IF ev.is_error = "true"
    THEN IF ev.result_kind = "str"
         THEN [r EXCEPT !.error = Some(ClaudeErrorMsg(ev.result))]
         ELSE r
    ELSE r
ApplyIsError(r, ev) ==
    IF ev.is_error = "true"
    THEN LET r2 == [r EXCEPT !.success = FALSE]
         IN IF ev.result_kind = "str"
            THEN [r2 EXCEPT !.error = Some(ClaudeErrorMsg(ev.result))]
            ELSE r2
    ELSE r

\* The match on `type` (lines 427-506)
\* (mutant: the text of a result event is not accumulated)
ClassifyEventAssistantOnly(r, ev) ==
    IF ev.type_ = "assistant"
    THEN IF ev.content_kind = "arr" THEN AppendBlocks(r, ev.content) ELSE r
    ELSE IF ev.type_ = "result"
    THEN ApplyIsError(r, ev)
    ELSE r
ClassifyEvent(r, ev) ==
    IF ev.type_ = "assistant"
    THEN IF ev.content_kind = "arr" THEN AppendBlocks(r, ev.content) ELSE r
    ELSE IF ev.type_ = "result"
    THEN ApplyIsError(IF ev.result_kind = "str" THEN AppendAgentText(r, ev.result)
                      ELSE r, ev)
    ELSE r

\* The session id of an event (lines 416-420)
\* (mutant: the first session id seen is kept)
ExtractSessionIdFirstWins(r, ev) ==
    IF ev.sid_kind = "str" /\ ev.session_id /= <<>> /\ r.session_id = <<>>
    THEN [r EXCEPT !.session_id = ev.session_id]
    ELSE r
ExtractSessionId(r, ev) ==
    IF ev.sid_kind = "str" /\ ev.session_id /= <<>>
    THEN [r EXCEPT !.session_id = ev.session_id]
    ELSE r

\* The loop state: result, parse_error_seen, all_messages_size, and whether
\* this iteration called child.start_kill()
LoopState(r, pes, size, kill) ==
    [result |-> r, parse_error_seen |-> pes, all_messages_size |-> size, kill |-> kill]

\* The raw-event collection (lines 399-413)
\* (mutants: every event is collected whatever its size; the event is put
\* in front of the collection)
CollectMessageNoCeiling(st, ev) ==
    [st EXCEPT !.all_messages_size = @ + ev.size,
               !.result.all_messages = Append(@, ev)]
CollectMessageInFront(st, ev) ==
    IF st.all_messages_size + ev.size <= MAX_ALL_MESSAGES_SIZE
    THEN [st EXCEPT !.all_messages_size = @ + ev.size,
                    !.result.all_messages = <<ev>> \o @]
    ELSE IF ~st.result.all_messages_truncated
    THEN [st EXCEPT !.result.all_messages_truncated = TRUE]
    ELSE st
CollectMessage(st, ev) ==
    IF st.all_messages_size + ev.size <= MAX_ALL_MESSAGES_SIZE
    THEN [st EXCEPT !.all_messages_size = @ + ev.size,
                    !.result.all_messages = Append(@, ev)]
    ELSE IF ~st.result.all_messages_truncated
    THEN [st EXCEPT !.result.all_messages_truncated = TRUE]
    ELSE st

\* The truncated-line branch (lines 356-369)
\* (mutant: the child is not stopped)
OnTruncatedLineNoKill(st) ==
    LoopState([st.result EXCEPT !.success = FALSE, !.error = Some(LineTruncatedMsg)],
              TRUE, st.all_messages_size, FALSE)
OnTruncatedLine(st) ==
    LoopState([st.result EXCEPT !.success = FALSE, !.error = Some(LineTruncatedMsg)],
              TRUE, st.all_messages_size, ~st.parse_error_seen)

\* The parse-failure branch (lines 387-395)
OnParseFailure(st, line) ==
    LoopState(RecordParseError(st.result, JsonSyntaxError, line.text),
              TRUE, st.all_messages_size, ~st.parse_error_seen)

\* A line that decodes to a JSON value that is no object: from_value into
\* a map fails and `get` on it finds no key, so no branch of the iteration
\* does anything (lines 399-506)
\* (mutant: the line is taken for a parse failure)
OnNonObjectStopsParsing(st) ==
    [st EXCEPT !.parse_error_seen = TRUE, !.result.success = FALSE]
OnNonObject(st) == st

\* `if parse_error_seen { continue; }`: after a parse error or an over-long
\* line the loop only drains (lines 380-383)
\* (mutant: the lines after it are still parsed)
SkipsParsingNever(st) == FALSE
SkipsParsing(st) == st.parse_error_seen

\* One iteration of the stdout loop on a line that was read (lines 355-506)
ProcessStdoutLine(st0, line) ==
    LET st == [st0 EXCEPT !.kill = FALSE]
    IN IF line.kind = "truncated" THEN OnTruncatedLine(st)
       ELSE IF line.kind = "blank" THEN st
       ELSE IF SkipsParsing(st) THEN st
       ELSE IF line.kind = "badjson" THEN OnParseFailure(st, line)
       ELSE IF line.kind = "nonobject" THEN OnNonObject(st)
       ELSE LET st2 == CollectMessage(st, line.ev)
            IN [st2 EXCEPT !.result =
                    ClassifyEvent(ExtractSessionId(st2.result, line.ev), line.ev)]

\* The stdout read that fails (lines 508-513)
\* (mutant: the failed read leaves no trace in the result)
OnStdoutReadErrorIgnored(r) == r
OnStdoutReadError(r) == RecordParseError(r, IoErrorText, <<>>)

\* Exit status against the accumulated state (lines 533-550)
\* (mutants: on a failed exit the stderr text is left out; stderr text is
\* reported as an error whatever the exit status; on a failed exit the
\* error recorded so far is thrown away)
ReconcileDropsStderr(r, status, stderr_out) ==
    IF ~status.success
    THEN [r EXCEPT !.success = FALSE,
                   !.error = IF IsSome(r.error) THEN r.error
                             ELSE Some(ExitCodeMsg(status.code))]
    ELSE IF stderr_out /= <<>>
    THEN [r EXCEPT !.warnings = Some(stderr_out)]
    ELSE r
ReconcileStderrIsError(r, status, stderr_out) ==
    IF stderr_out /= <<>>
    THEN [r EXCEPT !.success = FALSE,
                   !.error = Some((IF IsSome(r.error) THEN Unwrap(r.error)
                                   ELSE ExitCodeMsg(status.code))
                                  \o StderrLabel \o stderr_out)]
    ELSE IF ~status.success
    THEN [r EXCEPT !.success = FALSE,
                   !.error = IF IsSome(r.error) THEN r.error
                             ELSE Some(ExitCodeMsg(status.code))]
    ELSE r
ReconcileForgetsError(r, status, stderr_out) ==
    IF ~status.success
    THEN [r EXCEPT !.success = FALSE,
                   !.error = IF stderr_out /= <<>>
                             THEN Some(ExitCodeMsg(status.code) \o StderrLabel
                                       \o stderr_out)
                             ELSE Some(ExitCodeMsg(status.code))]
    ELSE IF stderr_out /= <<>>
    THEN [r EXCEPT !.warnings = Some(stderr_out)]
    ELSE r
Reconcile(r, status, stderr_out) ==
    IF ~status.success
    THEN LET error_msg == IF IsSome(r.error) THEN Unwrap(r.error)
                          ELSE ExitCodeMsg(status.code)
         IN [r EXCEPT !.success = FALSE,
                      !.error = IF stderr_out /= <<>>
                                THEN Some(error_msg \o StderrLabel \o stderr_out)
                                ELSE Some(error_msg)]
    ELSE IF stderr_out /= <<>>
    THEN [r EXCEPT !.warnings = Some(stderr_out)]
    ELSE r

\* One iteration of the stderr task on a line that was read (lines 309-328);
\* returns the text and the truncated flag
\* (mutant: the marker is pushed for every line that does not fit)
StderrAccumulateRepeatsMarker(output, trunc, line) ==
    LET new_size == Len(output) + Len(line) + 1
    IN IF new_size > MAX_STDERR_SIZE
       THEN [output |-> (IF output /= <<>> THEN output \o NewLine ELSE output)
                        \o StderrTruncatedMarker,
             truncated |-> TRUE]
       ELSE IF ~trunc
            THEN [output |-> (IF output /= <<>> THEN output \o NewLine ELSE output)
                             \o line,
                  truncated |-> trunc]
            ELSE [output |-> output, truncated |-> trunc]
StderrAccumulate(output, trunc, line) ==
    LET new_size == Len(output) + Len(line) + 1
    IN IF new_size > MAX_STDERR_SIZE
       THEN IF ~trunc
            THEN [output |-> (IF output /= <<>> THEN output \o NewLine ELSE output)
                             \o StderrTruncatedMarker,
                  truncated |-> TRUE]
            ELSE [output |-> output, truncated |-> trunc]
       ELSE IF ~trunc
            THEN [output |-> (IF output /= <<>> THEN output \o NewLine ELSE output)
                             \o line,
                  truncated |-> trunc]
            ELSE [output |-> output, truncated |-> trunc]

\* `cmd.kill_on_drop(true)`: what dropping the Child does to the process
\* (mutant: kill_on_drop is not set, the process is left alone)
DropChildNoKill(c) == c
DropChild(c) ==
    IF c.state = "running" THEN [state |-> "killed", status |-> KilledStatus] ELSE c

\* child.start_kill(): no effect on a process that has already ended
StartKill(c) ==
    IF c.state = "running" THEN [state |-> "killed", status |-> KilledStatus] ELSE c

(***************************************************************************)
(* One invocation of run: the steps                                        *)
(***************************************************************************)
NoChild == [state |-> "none", status |-> KilledStatus]
RunningChild == [state |-> "running", status |-> KilledStatus]
ChildEnded(c) == c.state \in {"exited", "killed"}

\* opts.timeout_secs of the invocation
RunOptTimeouts == {None, Some(2)}

InitRunWith(p) ==
    /\ profile = p
    /\ run_pc = "start"
    /\ returned = "none"
    /\ timed_out = FALSE
    /\ ret = InitialResult
    /\ result = InitialResult
    /\ reconciled = InitialResult
    /\ parse_error_seen = FALSE
    /\ all_messages_size = 0
    /\ lines_read = <<>>
    /\ child = NoChild
    /\ out_pipe = <<>>
    /\ out_closed = FALSE
    /\ out_written = 0
    /\ err_pipe = <<>>
    /\ err_closed = FALSE
    /\ err_written = 0
    /\ stderr_pc = "none"
    /\ stderr_output = <<>>
    /\ stderr_truncated = FALSE

InitRun == InitRunWith("run")

\* A process that has ended has its pipe ends closed
ClosedBy(c, closed) == closed \/ ChildEnded(c)

\* run up to the first await of run_internal: the timeout is resolved, the
\* child is spawned (or not) and the stderr task is started (lines 206-345)
RunStart ==
    /\ run_pc = "start"
    /\ \E o \in RunOptTimeouts, spawn_ok \in BOOLEAN :
         LET needs_default == IsNone(o)
             tcell == IF needs_default
                      THEN CachedTimeoutCell(CACHED_TIMEOUT, SERVER_CONFIG, cfg_file)
                      ELSE CACHED_TIMEOUT
             cell == IF needs_default /\ IsNone(CACHED_TIMEOUT)
                     THEN ServerConfigCell(SERVER_CONFIG, cfg_file)
                     ELSE SERVER_CONFIG
         IN /\ run_opts' = Some(o)
            /\ CACHED_TIMEOUT' = tcell
            /\ SERVER_CONFIG' = cell
            /\ run_deadline' =
                 Some(ResolveTimeout(o, IF needs_default THEN Unwrap(tcell)
                                        ELSE DEFAULT_TIMEOUT_SECS))
            /\ cfg_loaded' = LoadedFrom(SERVER_CONFIG, cell, cfg_file, cfg_loaded)
            /\ IF spawn_ok
               THEN /\ child' = RunningChild
                    /\ stderr_pc' = "loop"
                    /\ run_pc' = "stdout"
                    /\ UNCHANGED returned
               ELSE /\ returned' = "Err"
                    /\ run_pc' = "done"
                    /\ UNCHANGED <<child, stderr_pc>>
    /\ UNCHANGED <<timed_out, ret, result, reconciled, parse_error_seen,
                   all_messages_size, lines_read, out_pipe, out_closed, out_written,
                   err_pipe, err_closed, err_written, profile, stderr_output,
                   stderr_truncated>>
    /\ UNCHANGED <<toolvars, rlvars, cfg_file>>

\* One iteration of the stdout loop that reads a line
StdoutReadLine ==
    /\ run_pc = "stdout"
    /\ out_pipe /= <<>>
    /\ LET st == ProcessStdoutLine(
                     LoopState(result, parse_error_seen, all_messages_size, FALSE),
                     Head(out_pipe))
           c == IF st.kill THEN StartKill(child) ELSE child
       IN /\ result' = st.result
          /\ parse_error_seen' = st.parse_error_seen
          /\ all_messages_size' = st.all_messages_size
          /\ child' = c
          /\ out_closed' = ClosedBy(c, out_closed)
          /\ err_closed' = ClosedBy(c, err_closed)
    /\ lines_read' = Append(lines_read, Head(out_pipe))
    /\ out_pipe' = Tail(out_pipe)
    /\ UNCHANGED <<run_pc, returned, timed_out, ret, reconciled, out_written,
                   err_pipe, err_written, profile, stderrvars>>
    /\ UNCHANGED <<toolvars, rlvars, cfgvars>>

\* The iteration that reads zero bytes: end of stream, the loop is left
StdoutEof ==
    /\ run_pc = "stdout"
    /\ out_pipe = <<>>
    /\ out_closed
    /\ run_pc' = "wait"
    /\ UNCHANGED <<returned, timed_out, ret, result, reconciled, parse_error_seen,
                   all_messages_size, lines_read, childvars, stderrvars>>
    /\ UNCHANGED <<toolvars, rlvars, cfgvars>>

\* The iteration whose read fails: the error is recorded, the loop is left
StdoutReadError ==
    /\ run_pc = "stdout"
    /\ result' = OnStdoutReadError(result)
    /\ run_pc' = "wait"
    /\ UNCHANGED <<returned, timed_out, ret, reconciled, parse_error_seen,
                   all_messages_size, lines_read, childvars, stderrvars>>
    /\ UNCHANGED <<toolvars, rlvars, cfgvars>>

\* child.wait() completes once the process has ended
WaitChild ==
    /\ run_pc = "wait"
    /\ ChildEnded(child)
    /\ run_pc' = "join"
    /\ UNCHANGED <<returned, timed_out, ret, result, reconciled, parse_error_seen,
                   all_messages_size, lines_read, childvars, stderrvars>>
    /\ UNCHANGED <<toolvars, rlvars, cfgvars>>

\* The future of run_internal is dropped before it completed: its locals
\* are gone, among them the Child (kill_on_drop) and the read end of the
\* child's stdout, whose unread content is lost.  The stderr task is
\* detached and lives on with its own read end.
DropRunInternal ==
    /\ result' = InitialResult
    /\ parse_error_seen' = FALSE
    /\ all_messages_size' = 0
    /\ child' = DropChild(child)
    /\ out_pipe' = <<>>
    /\ out_closed' = ClosedBy(child', out_closed)
    /\ err_closed' = ClosedBy(child', err_closed)

\* child.wait() fails: `?` returns the error and drops the Child
WaitError ==
    /\ run_pc = "wait"
    /\ returned' = "Err"
    /\ run_pc' = "done"
    /\ DropRunInternal
    /\ UNCHANGED <<timed_out, ret, reconciled, lines_read, out_written, err_pipe,
                   err_written, profile, stderrvars>>
    /\ UNCHANGED <<toolvars, rlvars, cfgvars>>

\* `stderr_handle.await` completes once the stderr task has ended, at the
\* end of its stream or at a failed read (lines 524-531)
\* (mutant: the handle is not awaited)
StderrJoinedNoWait == TRUE
StderrJoined == stderr_pc \in {"done", "failed"}

\* The stderr task is joined, the exit status reconciled, the result
\* validated and returned (lines 524-552)
JoinAndFinish ==
    /\ run_pc = "join"
    /\ StderrJoined
    /\ reconciled' = Reconcile(result, child.status, stderr_output)
    /\ ret' = EnforceRequiredFields(reconciled', "Full")
    /\ returned' = "Ok"
    /\ run_pc' = "done"
    /\ UNCHANGED <<timed_out, result, parse_error_seen, all_messages_size,
                   lines_read, childvars, stderrvars>>
    /\ UNCHANGED <<toolvars, rlvars, cfgvars>>

\* run_internal is suspended at one of its awaits
AtAwait == run_pc \in {"stdout", "wait", "join"}

\* `tokio::time::timeout(duration, run_internal(opts))`: the deadline covers
\* every await of run_internal
\* (mutant: only the stdout loop is under the deadline)
DeadlineArmedStdoutOnly == run_pc = "stdout"
DeadlineArmed == run_pc \in {"stdout", "wait", "join"}

\* The deadline of tokio::time::timeout expires: run_internal is dropped,
\* and with it the Child (lines 215-232)
Timeout ==
    /\ DeadlineArmed
    /\ ret' = EnforceRequiredFields(TimeoutResult(Unwrap(run_deadline)), "Skip")
    /\ returned' = "Ok"
    /\ timed_out' = TRUE
    /\ run_pc' = "done"
    /\ DropRunInternal
    /\ UNCHANGED <<reconciled, lines_read, out_written, err_pipe, err_written,
                   profile, stderrvars>>
    /\ UNCHANGED <<toolvars, rlvars, cfgvars>>

\* The caller drops the future of run before it completes
CallerDrop ==
    /\ AtAwait
    /\ returned' = "dropped"
    /\ run_pc' = "done"
    /\ DropRunInternal
    /\ UNCHANGED <<timed_out, ret, reconciled, lines_read, out_written, err_pipe,
                   err_written, profile, stderrvars>>
    /\ UNCHANGED <<toolvars, rlvars, cfgvars>>

\* ---- the child ----
ChildWriteStdout ==
    /\ child.state = "running"
    /\ ~out_closed
    /\ Len(out_pipe) < StdoutPipeCap(profile)
    /\ out_written < StdoutLineLimit(profile)
    /\ \E line \in StdoutLines(profile) : out_pipe' = Append(out_pipe, line)
    /\ out_written' = out_written + 1
    /\ UNCHANGED <<child, out_closed, err_pipe, err_closed, err_written, profile>>
    /\ UNCHANGED <<toolvars, rlvars, cfgvars, runvars, stderrvars>>

ChildWriteStderr ==
    /\ child.state = "running"
    /\ ~err_closed
    /\ Len(err_pipe) < PipeCap
    /\ err_written < StderrLineLimit(profile)
    /\ \E line \in StderrLines(profile) : err_pipe' = Append(err_pipe, line)
    /\ err_written' = err_written + 1
    /\ UNCHANGED <<child, out_pipe, out_closed, out_written, err_closed, profile>>
    /\ UNCHANGED <<toolvars, rlvars, cfgvars, runvars, stderrvars>>

ChildCloseStdout ==
    /\ child.state = "running"
    /\ ~out_closed
    /\ out_closed' = TRUE
    /\ UNCHANGED <<child, out_pipe, out_written, err_pipe, err_closed, err_written,
                   profile>>
    /\ UNCHANGED <<toolvars, rlvars, cfgvars, runvars, stderrvars>>

ChildCloseStderr ==
    /\ child.state = "running"
    /\ ~err_closed
    /\ err_closed' = TRUE
    /\ UNCHANGED <<child, out_pipe, out_closed, out_written, err_pipe, err_written,
                   profile>>
    /\ UNCHANGED <<toolvars, rlvars, cfgvars, runvars, stderrvars>>

ChildExit ==
    /\ child.state = "running"
    /\ \E code \in ExitCodes :
         child' = [state |-> "exited", status |-> ExitStatus(Some(code))]
    /\ out_closed' = TRUE
    /\ err_closed' = TRUE
    /\ UNCHANGED <<out_pipe, out_written, err_pipe, err_written, profile>>
    /\ UNCHANGED <<toolvars, rlvars, cfgvars, runvars, stderrvars>>

\* ---- the stderr task ----
\* The task is spawned on the runtime before the loop over stdout starts
\* (tokio::spawn, line 295) and runs whatever run_internal is waiting for
\* (mutant: stderr is read only once the loop over stdout has been left)
StderrTaskRunsAfterStdout == stderr_pc = "loop" /\ run_pc /= "stdout"
StderrTaskRuns == stderr_pc = "loop"

StderrReadLine ==
    /\ StderrTaskRuns
    /\ err_pipe /= <<>>
    /\ LET a == StderrAccumulate(stderr_output, stderr_truncated, Head(err_pipe))
       IN /\ stderr_output' = a.output
          /\ stderr_truncated' = a.truncated
    /\ err_pipe' = Tail(err_pipe)
    /\ UNCHANGED <<stderr_pc, child, out_pipe, out_closed, out_written, err_closed,
                   err_written, profile>>
    /\ UNCHANGED <<toolvars, rlvars, cfgvars, runvars>>

StderrEof ==
    /\ StderrTaskRuns
    /\ err_pipe = <<>>
    /\ err_closed
    /\ stderr_pc' = "done"
    /\ UNCHANGED <<stderr_output, stderr_truncated, childvars>>
    /\ UNCHANGED <<toolvars, rlvars, cfgvars, runvars>>

\* A read of the stderr task fails: the task logs it and ends with what
\* it has so far, the rest of the stream is never read (lines 331-335)
StderrReadError ==
    /\ StderrTaskRuns
    /\ stderr_pc' = "failed"
    /\ UNCHANGED <<stderr_output, stderr_truncated, childvars>>
    /\ UNCHANGED <<toolvars, rlvars, cfgvars, runvars>>

NextRun ==
    \/ RunStart
    \/ StdoutReadLine
    \/ StdoutEof
    \/ StdoutReadError
    \/ WaitChild
    \/ WaitError
    \/ JoinAndFinish
    \/ Timeout
    \/ CallerDrop
    \/ ChildWriteStdout
    \/ ChildWriteStderr
    \/ ChildCloseStdout
    \/ ChildCloseStderr
    \/ ChildExit
    \/ StderrReadLine
    \/ StderrEof
    \/ StderrReadError

(***************************************************************************)
(* The claude tool of the server (server.rs) and the child's command line  *)
(***************************************************************************)
MaxExtraArgs == 2   \* most entries of Options.additional_args

\* ---- the inputs ----
ExtraArgs == {<<"-a">>, <<"-b">>}
ExtraArgLists == SeqUpTo(ExtraArgs, MaxExtraArgs)
Prompts == {<<>>, <<"p">>}
ArgSessionIds == {None, Some(<<>>), Some(<<"s">>)}

\* struct ClaudeArgs: PROMPT, and SESSION_ID with `default` (None if absent)
ClaudeArgs(prompt, session_id) == [prompt |-> prompt, session_id |-> session_id]
ToolInputs == {ClaudeArgs(p, sid) : p \in Prompts, sid \in ArgSessionIds}

\* struct Options (working_dir left out)
Options(prompt, session_id, additional_args, timeout_secs) ==
    [prompt |-> prompt, session_id |-> session_id,
     additional_args |-> additional_args, timeout_secs |-> timeout_secs]

\* The Options the tool builds from its arguments (server.rs 113-119)
ToolOptions(args, extra) == Options(args.prompt, args.session_id, extra, None)

\* The arguments of the child, in the order of the cmd.arg / cmd.args calls
\* (claude.rs 248-264)
\* (mutant: --resume is put in front of the extra flags)
BuildArgsResumeFirst(opts) ==
    <<(<<"--print">>), (<<"--output-format">>), (<<"stream-json">>)>>
    \o (IF IsSome(opts.session_id)
        THEN <<(<<"--resume">>), Unwrap(opts.session_id)>> ELSE <<>>)
    \o opts.additional_args
    \o <<opts.prompt>>
BuildArgs(opts) ==
    <<(<<"--print">>), (<<"--output-format">>), (<<"stream-json">>)>>
    \o opts.additional_args
    \o (IF IsSome(opts.session_id)
        THEN <<(<<"--resume">>), Unwrap(opts.session_id)>> ELSE <<>>)
    \o <<opts.prompt>>

\* ---- the answer ----
\* The results run may hand back: success goes with no error, a result
\* without session id carries an error, truncated text is not empty
ClaudeResults ==
    {ClaudeResult(IsNone(e), sid, agent, at, <<>>, allt, e, w) :
        sid \in {<<>>, <<"s">>}, agent \in {<<>>, <<"a">>}, at \in BOOLEAN,
        allt \in BOOLEAN, e \in {None, Some(<<"e">>)}, w \in {None, Some(<<"w">>)}}
RunResults ==
    {r \in ClaudeResults :
        /\ r.session_id = <<>> => IsSome(r.error)
        /\ r.agent_messages_truncated => r.agent_messages /= <<>>}

\* struct ClaudeOutput as the tool fills it in, on success and on failure
\* (server.rs 129-165)
ClaudeOutput(r) ==
    [success |-> IF r.success THEN TRUE ELSE FALSE,
     session_id |-> r.session_id,
     message |-> r.agent_messages,
     agent_messages_truncated |->
         IF r.agent_messages_truncated THEN Some(TRUE) ELSE None,
     all_messages |-> None,
     all_messages_truncated |-> None,
     error |-> r.error,
     warnings |-> r.warnings]

\* serde_json of a bool
JsonBool(b) == IF b THEN <<"true">> ELSE <<"false">>

\* One member of the serialized object; an Option field with
\* skip_serializing_if = "Option::is_none" gives no member when it is None
Member(key, val) == <<[key |-> key, val |-> val]>>
OptMember(key, opt, val) == IF IsNone(opt) THEN <<>> ELSE Member(key, val)

\* serde_json::to_string(&output): the members in the order of the fields
\* of the struct (server.rs 26-42).  all_messages is never Some.
ToJson(o) ==
    Member("success", JsonBool(o.success))
    \o Member("SESSION_ID", o.session_id)
    \o Member("message", o.message)
    \o OptMember("agent_messages_truncated", o.agent_messages_truncated,
                 IF IsSome(o.agent_messages_truncated)
                 THEN JsonBool(Unwrap(o.agent_messages_truncated)) ELSE <<>>)
    \o OptMember("all_messages", o.all_messages, <<"[...]">>)
    \o OptMember("all_messages_truncated", o.all_messages_truncated,
                 IF IsSome(o.all_messages_truncated)
                 THEN JsonBool(Unwrap(o.all_messages_truncated)) ELSE <<>>)
    \o OptMember("error", o.error, IF IsSome(o.error) THEN Unwrap(o.error) ELSE <<>>)
    \o OptMember("warnings", o.warnings,
                 IF IsSome(o.warnings) THEN Unwrap(o.warnings) ELSE <<>>)

NoResponse == [kind |-> "none", json |-> <<>>]
ToolSuccess(json) == [kind |-> "success", json |-> json]
McpError(kind) == [kind |-> kind, json |-> <<>>]

\* ---- the steps of one tool call ----
InitToolIdle ==
    /\ tool_pc = "idle"
    /\ tool_args = ClaudeArgs(<<>>, None)
    /\ tool_opts = None
    /\ child_argv = <<>>
    /\ tool_result = None
    /\ tool_response = NoResponse

InitTool ==
    /\ tool_pc = "start"
    /\ tool_args \in ToolInputs
    /\ tool_opts = None
    /\ child_argv = <<>>
    /\ tool_result = None
    /\ tool_response = NoResponse

\* The tool up to the await of run: the prompt and the working directory
\* are validated, the Options are built, run builds the command line and
\* spawns the child (server.rs 77-122, claude.rs 248-273)
ToolCall ==
    /\ tool_pc = "start"
    /\ \E extra \in ExtraArgLists, cwd_ok \in BOOLEAN, spawn_ok \in BOOLEAN :
         IF tool_args.prompt = <<>> \/ ~cwd_ok
         THEN /\ tool_pc' = "invalid_params"
              /\ tool_response' = McpError("invalid_params")
              /\ UNCHANGED <<tool_opts, child_argv>>
         ELSE LET opts == ToolOptions(tool_args, extra)
              IN /\ tool_opts' = Some(opts)
                 /\ IF spawn_ok
                    THEN /\ child_argv' = BuildArgs(opts)
                         /\ tool_pc' = "running"
                         /\ UNCHANGED tool_response
                    ELSE /\ tool_pc' = "internal_error"
                         /\ tool_response' = McpError("internal_error")
                         /\ UNCHANGED child_argv
    /\ UNCHANGED <<tool_args, tool_result>>
    /\ UNCHANGED <<rlvars, cfgvars, pvars>>

\* run returns Ok: the result is copied into a ClaudeOutput, serialized and
\* answered as the content of a successful call (server.rs 126-174)
ToolRunOk ==
    /\ tool_pc = "running"
    /\ \E r \in RunResults :
         /\ tool_result' = Some(r)
         /\ tool_response' = ToolSuccess(ToJson(ClaudeOutput(r)))
    /\ tool_pc' = "responded"
    /\ UNCHANGED <<tool_args, tool_opts, child_argv>>
    /\ UNCHANGED <<rlvars, cfgvars, pvars>>

\* run returns Err: the tool answers with an internal error (server.rs 122-124)
ToolRunErr ==
    /\ tool_pc = "running"
    /\ tool_pc' = "internal_error"
    /\ tool_response' = McpError("internal_error")
    /\ UNCHANGED <<tool_args, tool_opts, child_argv, tool_result>>
    /\ UNCHANGED <<rlvars, cfgvars, pvars>>

NextTool ==
    \/ ToolCall
    \/ ToolRunOk
    \/ ToolRunErr

\* One call sequence on read_line_with_limit
InitSpecReader == InitReader /\ InitCfgIdle /\ InitRun /\ InitToolIdle
SpecReader == InitSpecReader /\ [][NextReader]_vars

\* The configuration cells and the timeout resolution of run
InitSpecCfg == InitCfg /\ InitReaderIdle /\ InitRun /\ InitToolIdle
SpecCfg == InitSpecCfg /\ [][NextCfg]_vars

\* One invocation of run
Init == InitRun /\ InitReaderIdle /\ InitCfgIdle /\ InitToolIdle
Spec == Init /\ [][NextRun]_vars

\* One invocation whose child writes the events that reach the size ceilings
InitCaps == InitRunWith("caps") /\ InitReaderIdle /\ InitCfgIdle /\ InitToolIdle
SpecCaps == InitCaps /\ [][NextRun]_vars

\* One invocation whose child writes more on stderr than the ceiling holds
InitStderr == InitRunWith("stderr") /\ InitReaderIdle /\ InitCfgIdle /\ InitToolIdle
SpecStderr == InitStderr /\ [][NextRun]_vars

\* One invocation of run under a timer that fires if it stays armed
InitFair == InitRunWith("fair") /\ InitReaderIdle /\ InitCfgIdle /\ InitToolIdle
SpecFair == InitFair /\ [][NextRun]_vars /\ WF_vars(Timeout)

\* One invocation whose child has written its next line by the time a line
\* is read (profile "late")
InitLate == InitRunWith("late") /\ InitReaderIdle /\ InitCfgIdle /\ InitToolIdle
SpecLate == InitLate /\ [][NextRun]_vars

\* One invocation whose child writes blank lines and JSON values that are
\* no objects (profile "skip")
InitSkip == InitRunWith("skip") /\ InitReaderIdle /\ InitCfgIdle /\ InitToolIdle
SpecSkip == InitSkip /\ [][NextRun]_vars

\* One call of the claude tool
InitSpecTool == InitTool /\ InitReaderIdle /\ InitCfgIdle /\ InitRun
SpecTool == InitSpecTool /\ [][NextTool]_vars

\* A run whose two readers are scheduled: the runtime polls the stderr task
\* and the future of run whenever a line is ready for them
SpecDrain == InitFair /\ [][NextRun]_vars /\ WF_vars(StdoutReadLine) /\ WF_vars(StderrReadLine)

(***************************************************************************)
(* Properties                                                              *)
(***************************************************************************)
ReturnedOk == returned = "Ok"
CompletedRun == returned = "Ok" /\ ~timed_out

\* C1: in every ClaudeResult that run returns, after normal completion or
\* after a timeout, a set error implies success == false.
C1_ErrorImpliesFailure ==
    ReturnedOk => (IsSome(ret.error) => ~ret.success)

\* A completed run of a child that exited 0 whose error comes from stdout
C1_Witness ==
    /\ CompletedRun
    /\ child.status.success
    /\ IsSome(ret.error)
    /\ ret.session_id /= <<>>

\* C2: run never returns a result whose session_id is empty while error is
\* absent, on completion and on timeout alike.
C2_EmptySessionIdHasError ==
    ReturnedOk => ~(ret.session_id = <<>> /\ IsNone(ret.error))

\* A completed run in which only the validator supplied the error
C2_Witness ==
    /\ CompletedRun
    /\ ret.session_id = <<>>
    /\ IsNone(reconciled.error)
    /\ lines_read /= <<>>

\* C3: in Full mode, an empty session_id with no error yields success ==
\* false and an error mentioning the session id; an empty session_id with
\* an error already set yields that error unchanged, with no session id
\* message added.
C3_SessionIdValidation ==
    CompletedRun /\ reconciled.session_id = <<>> =>
        IF IsNone(reconciled.error)
        THEN /\ ~ret.success
             /\ IsSome(ret.error)
             /\ Contains(Unwrap(ret.error), SessionIdMsg)
        ELSE /\ ret.error = reconciled.error
             /\ ~Contains(Unwrap(ret.error), SessionIdMsg)

\* A completed run that reached the validator with an error and no session id
C3_Witness ==
    /\ CompletedRun
    /\ reconciled.session_id = <<>>
    /\ IsSome(reconciled.error)
    /\ ret.error = reconciled.error

\* C4: after a non-timeout run with empty assistant text the "No
\* agent_messages" warning is appended to warnings, after any warning
\* already there; success and error differ from what the validator was
\* given only where the session id rule applies; an error already set does
\* not stop the check.
C4_MissingTextIsWarning ==
    CompletedRun /\ reconciled.agent_messages = <<>> =>
        /\ IsSome(ret.warnings)
        /\ Unwrap(ret.warnings) =
              IF IsSome(reconciled.warnings)
              THEN Unwrap(reconciled.warnings) \o NewLine \o NoAgentMessagesMsg
              ELSE NoAgentMessagesMsg
        /\ (ret.success /= reconciled.success \/ ret.error /= reconciled.error)
              => (reconciled.session_id = <<>> /\ IsNone(reconciled.error))

\* Empty text, a stderr warning already present and an error already set
C4_Witness ==
    /\ CompletedRun
    /\ reconciled.agent_messages = <<>>
    /\ IsSome(reconciled.warnings)
    /\ IsSome(reconciled.error)
    /\ Len(Unwrap(ret.warnings)) > Len(NoAgentMessagesMsg)

\* ---- C5 ----
\* The i-th line read reached the JSON classifier: it is an object and no
\* earlier line was over-long or failed to parse
Parsed(i) ==
    /\ lines_read[i].kind = "object"
    /\ \A j \in 1..(i - 1) : lines_read[j].kind \notin {"truncated", "badjson"}
\* ... and is a result event with is_error true and a string result
IsErrorResult(i) ==
    /\ lines_read[i].kind = "object"
    /\ lines_read[i].ev.type_ = "result"
    /\ lines_read[i].ev.is_error = "true"
    /\ lines_read[i].ev.result_kind = "str"
ErrorHasText(r, text) == IsSome(r.error) /\ Contains(Unwrap(r.error), text)

\* C5 as claimed: whenever the stdout stream read by a completed run holds a
\* result event with is_error true and text T, the result has success ==
\* false and an error containing T, whatever the other lines are.
C5_AsClaimed ==
    CompletedRun =>
        \A i \in 1..Len(lines_read) :
            IsErrorResult(i) =>
                ~ret.success /\ ErrorHasText(ret, lines_read[i].ev.result)

\* C5 as amended: a result event with is_error true and text T that is
\* parsed (no earlier line failed to parse or was over-long) makes the
\* returned result unsuccessful; its error contains "Claude error: T" when
\* the run did not time out, no later parsed result event with is_error
\* true replaced it and no later line was over-long.
C5_ErrorResultReported ==
    ReturnedOk =>
        \A i \in 1..Len(lines_read) :
            IsErrorResult(i) /\ Parsed(i) =>
                /\ ~ret.success
                /\ ( /\ ~timed_out
                     /\ \A j \in (i + 1)..Len(lines_read) :
                            /\ lines_read[j].kind /= "truncated"
                            /\ ~(IsErrorResult(j) /\ Parsed(j)) )
                   => ErrorHasText(ret, ClaudeErrorMsg(lines_read[i].ev.result))

\* An error result after assistant text, a failed exit and stderr text
C5_Witness ==
    /\ CompletedRun
    /\ Len(lines_read) = 2
    /\ lines_read[1] = LAssistant
    /\ lines_read[2] = LResultError
    /\ ~child.status.success
    /\ stderr_output /= <<>>
    /\ ErrorHasText(ret, ClaudeErrorMsg(<<"b">>))

\* C6: when the operation is cancelled, by the deadline or by the caller
\* dropping the future, the child is terminated: no cancelled run leaves
\* the child running.
C6_CancelKillsChild ==
    (timed_out \/ returned = "dropped") => child.state /= "running"

\* A caller drop that found the child alive, no start_kill before it
C6_Witness ==
    /\ returned = "dropped"
    /\ child.state = "killed"
    /\ lines_read /= <<>>
    /\ \A i \in 1..Len(lines_read) : lines_read[i].kind = "object"

\* C7: the result of a timed out run is the synthetic one: success ==
\* false, the error states the configured seconds, session_id and
\* agent_messages are empty and there are no warnings, whatever had been
\* processed before the deadline.
C7_TimeoutResult ==
    timed_out =>
        /\ returned = "Ok"
        /\ ~ret.success
        /\ ret.error = Some(<<"Claude execution timed out after ",
                              ToString(Unwrap(run_deadline)), " seconds">>)
        /\ ret.session_id = <<>>
        /\ ret.agent_messages = <<>>
        /\ IsNone(ret.warnings)

\* A timeout after a session id and assistant text had been processed
C7_Witness ==
    /\ timed_out
    /\ lines_read = <<LAssistant>>
    /\ Unwrap(run_opts) = None

\* C8: with a fair timer, an invocation that has spawned its child ends:
\* run returns (or its future is dropped) even if the child never writes,
\* never closes its pipes or never exits.
C8_RunReturns == AtAwait ~> (returned /= "none")

\* The deadline ended a wait on a child that wrote nothing and never exited
C8_Witness ==
    /\ timed_out
    /\ out_written = 0
    /\ err_written = 0
    /\ child.state = "killed"
    /\ stderr_pc = "loop"

\* ---- C9 ----
\* What a file's timeout_secs means: a file that does not load, a missing
\* value and a value that is not positive mean the default; a value above
\* the ceiling means the ceiling
ExpectedDefaultTimeout(file) ==
    IF file.state /= "json" \/ IsNone(file.timeout_secs) THEN 600
    ELSE IF Unwrap(file.timeout_secs) <= 0 THEN 600
    ELSE IF Unwrap(file.timeout_secs) > 3600 THEN 3600
    ELSE Unwrap(file.timeout_secs)

\* C9 as claimed: the deadline run enforces is greater than 0 and at most
\* 3600 seconds for every Options value and every configuration.
C9_AsClaimed ==
    IsSome(run_deadline) =>
        Unwrap(run_deadline) > 0 /\ Unwrap(run_deadline) <= 3600

\* C9 as amended: with timeout_secs unset in Options the deadline is the
\* process-wide default, which is greater than 0 and at most 3600 (above
\* 3600 clamped to 3600, missing or non-positive replaced by 600, as the
\* configuration said when it was first loaded); a timeout_secs set in
\* Options is the deadline as it is, unclamped.
C9_DeadlineResolution ==
    IsSome(run_deadline) =>
        IF IsNone(Unwrap(run_opts))
        THEN /\ Unwrap(run_deadline) > 0
             /\ Unwrap(run_deadline) <= 3600
             /\ IsSome(cfg_loaded)
             /\ Unwrap(run_deadline) = ExpectedDefaultTimeout(Unwrap(cfg_loaded))
        ELSE Unwrap(run_deadline) = Unwrap(Unwrap(run_opts))

\* A run without its own timeout under a configuration that asks for 3601
C9_Witness ==
    /\ run_deadline = Some(3600)
    /\ run_opts = Some(None)
    /\ IsSome(cfg_loaded)
    /\ Unwrap(cfg_loaded).timeout_secs = Some(3601)

\* ---- C10 ----
\* The position of the first newline after `start`, 0 when there is none
FirstNewlineAfter(stream, start) ==
    IF \E j \in (start + 1)..Len(stream) : stream[j] = NL
    THEN CHOOSE j \in (start + 1)..Len(stream) :
            /\ stream[j] = NL
            /\ \A k \in (start + 1)..(j - 1) : stream[k] /= NL
    ELSE 0

\* C10: a call reports its line truncated exactly when the line's length,
\* newline included, exceeds the cap; and a call that ended on a newline
\* leaves the reader on the first byte after that newline.
C10_TruncatedIffOverCap ==
    rl_pc = "idle" /\ rl_ret.kind = "Ok" =>
        LET nl == FirstNewlineAfter(rl_stream, rl_start)
            line_len == IF nl > 0 THEN nl - rl_start ELSE Len(rl_stream) - rl_start
        IN /\ rl_ret.truncated <=> (line_len > rl_max_len)
           /\ nl > 0 => rl_pos = nl
           /\ nl = 0 => rl_pos = Len(rl_stream)

\* A truncated line that ended on a newline with another line behind it
C10_Witness ==
    /\ rl_pc = "idle"
    /\ rl_ret.kind = "Ok"
    /\ rl_ret.truncated
    /\ rl_max_len > 0
    /\ rl_pos > 0
    /\ rl_pos < Len(rl_stream)
    /\ rl_stream[rl_pos] = NL
    /\ rl_pos - rl_start > rl_max_len + 1

\* ---- C11 ----
\* C11: during and after a call of read_line_with_limit that started with
\* an empty buffer, the buffer holds at most max_len bytes, total_read is
\* the number of bytes stored, and the bytes_read returned is that number.
C11_BufferBounded ==
    /\ Len(rl_buf) <= rl_max_len
    /\ rl_total_read = Len(rl_buf)
    /\ (rl_pc = "idle" /\ rl_ret.kind = "Ok") => rl_ret.bytes_read = Len(rl_buf)

\* A line longer than the cap that came in more than one chunk: the buffer
\* is full and the rest of the line was dropped
C11_Witness ==
    /\ rl_pc = "idle"
    /\ rl_ret.kind = "Ok"
    /\ rl_ret.truncated
    /\ rl_max_len > 0
    /\ Len(rl_buf) = rl_max_len
    /\ rl_pos - rl_start > MaxChunk

\* ---- C12 ----
\* a is b with some elements left out
RECURSIVE IsSubseq(_, _)
IsSubseq(a, b) ==
    IF a = <<>> THEN TRUE
    ELSE IF b = <<>> THEN FALSE
    ELSE IF Head(a) = Head(b) THEN IsSubseq(Tail(a), Tail(b))
    ELSE IsSubseq(a, Tail(b))

\* The events of the first n lines read that reached the classifier
RECURSIVE ParsedEventsUpTo(_)
ParsedEventsUpTo(n) ==
    IF n = 0 THEN <<>>
    ELSE IF Parsed(n) THEN Append(ParsedEventsUpTo(n - 1), lines_read[n].ev)
    ELSE ParsedEventsUpTo(n - 1)

\* The step that drops run_internal (deadline, caller drop, failed wait):
\* its `result` is gone, nothing of it is returned
DropStep == returned = "none" /\ (returned' \in {"Err", "dropped"} \/ timed_out')
RunAlive == returned \in {"none", "Ok"} /\ ~timed_out

\* C12: all_messages is always a subsequence, in arrival order, of the
\* JSON-object lines parsed from stdout; a step of the run leaves it as it
\* is or appends the event just read at its end, so its size never
\* decreases; the returned collection is the accumulated one.
C12_EventsInArrivalOrder ==
    /\ [](RunAlive =>
            IsSubseq(result.all_messages, ParsedEventsUpTo(Len(lines_read))))
    /\ [](CompletedRun => ret.all_messages = result.all_messages)
    /\ [][~DropStep =>
            \/ result'.all_messages = result.all_messages
            \/ /\ Len(lines_read') = Len(lines_read) + 1
               /\ result'.all_messages =
                     Append(result.all_messages, lines_read'[Len(lines_read')].ev)]_vars

\* Two different events, both collected, returned in the order read
C12_Witness ==
    /\ CompletedRun
    /\ Len(ret.all_messages) = 2
    /\ ret.all_messages[1] /= ret.all_messages[2]
    /\ ret.all_messages = ParsedEventsUpTo(Len(lines_read))

\* ---- C13 ----
\* C13: once all_messages_truncated is set the collection is frozen: no
\* later event of any size is appended to all_messages and the flag never
\* returns to false.
C13_AsClaimed ==
    [][~DropStep /\ result.all_messages_truncated =>
          /\ result'.all_messages = result.all_messages
          /\ result'.all_messages_truncated]_vars

\* ---- C14 ----
\* How often the truncation marker occurs in the accumulated text
MarkerCount(text) ==
    Cardinality({i \in 1..Len(text) : text[i] = AgentTruncatedMarker[1]})

\* C14: once agent_messages_truncated is set, agent_messages does not
\* change for the rest of the run and the flag stays set (so it goes from
\* false to true at most once); the marker is in agent_messages exactly
\* once when the flag is set and not at all before; the returned text and
\* flag are the accumulated ones.
C14_AgentTextFrozen ==
    /\ [][~DropStep /\ result.agent_messages_truncated =>
             /\ result'.agent_messages = result.agent_messages
             /\ result'.agent_messages_truncated]_vars
    /\ [](RunAlive =>
            MarkerCount(result.agent_messages) =
                IF result.agent_messages_truncated THEN 1 ELSE 0)
    /\ [](CompletedRun =>
            /\ ret.agent_messages = result.agent_messages
            /\ ret.agent_messages_truncated = result.agent_messages_truncated)

\* Text of an assistant or result event arrived after the ceiling was hit
C14_Witness ==
    /\ CompletedRun
    /\ ret.agent_messages_truncated
    /\ Len(lines_read) = 2
    /\ lines_read[1] = LAssistantBlocks
    /\ lines_read[2] \in {LAssistant, LResult}
    /\ MarkerCount(ret.agent_messages) = 1

\* ---- C15 ----
\* C15: agent_messages is built from assistant events only: a completed
\* run that read no assistant event returns an empty agent_messages, and
\* one that read an assistant event and a result event with the same text
\* returns that text once.
C15_AsClaimed ==
    CompletedRun =>
        /\ (\A i \in 1..Len(lines_read) :
                ~(lines_read[i].kind = "object" /\ lines_read[i].ev.type_ = "assistant"))
              => ret.agent_messages = <<>>
        /\ lines_read = <<LAssistant, LResult>> => ret.agent_messages = <<"a">>

\* ---- C16 ----
\* The step reads a line and hands it to serde_json::from_str, which fails
DecodeFails ==
    /\ Len(lines_read') = Len(lines_read) + 1
    /\ lines_read'[Len(lines_read')].kind = "badjson"
    /\ ~parse_error_seen

\* "JSON parse error: <details>. Line: <text>" for the line just read
Diagnostic(line) ==
    <<"JSON parse error: ", "expected value at line 1 column 1", ". Line: ">>
        \o line.text

\* C16: when a non-empty, non-truncated line fails JSON decoding the run
\* is marked unsuccessful and the diagnostic becomes the error: after the
\* existing error and a newline when a non-empty error exists, alone
\* otherwise.
C16_ParseErrorAppended ==
    [][DecodeFails =>
          /\ ~result'.success
          /\ result'.error =
                IF IsSome(result.error) /\ Unwrap(result.error) /= <<>>
                THEN Some(Unwrap(result.error) \o <<"\n">>
                          \o Diagnostic(lines_read'[Len(lines_read')]))
                ELSE Some(Diagnostic(lines_read'[Len(lines_read')]))]_vars

\* A line that does not decode after a result event had reported an error
C16_Witness ==
    /\ lines_read = <<LResultError, LBadJson>>
    /\ result.error =
          Some(<<"Claude error: ", "b", "\n">> \o Diagnostic(LBadJson))
    /\ ~result.success
    /\ parse_error_seen

\* ---- C17 ----
\* The step reads a line that read_line_with_limit reported as truncated
ReadsTruncated ==
    /\ Len(lines_read') = Len(lines_read) + 1
    /\ lines_read'[Len(lines_read')].kind = "truncated"

\* C17: on an over-long stdout line nothing is parsed from it (session id,
\* text and collected events stay as they were), the run is marked
\* unsuccessful with the 'exceeded ... byte limit and was truncated'
\* error, the child has been told to stop, parsing is off and the loop
\* goes on reading; a run that completes after such a line is
\* unsuccessful whatever the exit status.
C17_TruncatedLineIsFatal ==
    /\ [][ReadsTruncated =>
             /\ ~result'.success
             /\ result'.error =
                   Some(<<"Output line exceeded 1048576 byte limit and was truncated, cannot parse JSON.">>)
             /\ result'.session_id = result.session_id
             /\ result'.agent_messages = result.agent_messages
             /\ result'.all_messages = result.all_messages
             /\ all_messages_size' = all_messages_size
             /\ parse_error_seen'
             /\ child'.state /= "running"
             /\ run_pc' = "stdout"]_vars
    /\ [](CompletedRun /\ (\E i \in 1..Len(lines_read) : lines_read[i].kind = "truncated")
            => ~ret.success /\ IsSome(ret.error))

\* An over-long line after an event, from a child that had exited with 0
\* before the line was read
C17_Witness ==
    /\ CompletedRun
    /\ lines_read = <<LAssistant, LTruncated>>
    /\ child.state = "exited"
    /\ child.status.success
    /\ ~ret.success
    /\ ret.error = Some(LineTruncatedMsg)
    /\ Len(ret.all_messages) = 1

\* ---- C18 ----
\* "claude command failed with exit code: " and the code, as {:?} prints it
ExitCodeText(status) ==
    <<"claude command failed with exit code: ">>
        \o (IF status.code = <<>> THEN <<"None">>
            ELSE <<"Some(", ToString(status.code[1]), ")">>)

\* C18 as claimed: whenever the child's exit status is not success, the
\* returned result is unsuccessful and its error holds the error already
\* recorded, the exit code and, when stderr text is non-empty, that text.
C18_AsClaimed ==
    CompletedRun /\ ~child.status.success =>
        /\ ~ret.success
        /\ IsSome(ret.error)
        /\ Contains(Unwrap(ret.error), ExitCodeText(child.status))
        /\ IsSome(result.error) => Contains(Unwrap(ret.error), Unwrap(result.error))
        /\ stderr_output /= <<>> => Contains(Unwrap(ret.error), stderr_output)

\* C18 as amended: after a run that completes with an exit status that is
\* not success, the result is unsuccessful and its error is the error
\* already recorded, or the exit code message when none was recorded,
\* followed by "\nStderr: " and the stderr text when that is non-empty.
C18_FailedExitReported ==
    CompletedRun /\ ~child.status.success =>
        /\ ~ret.success
        /\ ret.error =
              Some((IF IsSome(result.error) THEN Unwrap(result.error)
                    ELSE ExitCodeText(child.status))
                   \o (IF stderr_output /= <<>>
                       THEN <<"\nStderr: ">> \o stderr_output ELSE <<>>))

\* Exit code 2 after a result event had reported an error, with stderr
\* text: the error has both texts and no exit code
C18_Witness ==
    /\ CompletedRun
    /\ child.state = "exited"
    /\ child.status.code = Some(2)
    /\ result.error = Some(<<"Claude error: ", "b">>)
    /\ stderr_output = <<"e">>
    /\ ret.error = Some(<<"Claude error: ", "b", "\nStderr: ", "e">>)

\* ---- C19 ----
\* C19: when the child exits with status zero and the drained stderr text
\* is non-empty, reconciliation puts that text in warnings and leaves
\* success, error and the rest of the result as stdout processing left
\* them; a run that was successful with a session id is returned
\* successful and without error.
C19_StderrIsWarning ==
    CompletedRun /\ child.status.success /\ stderr_output /= <<>> =>
        /\ reconciled.warnings = Some(stderr_output)
        /\ reconciled.success = result.success
        /\ reconciled.error = result.error
        /\ reconciled = [result EXCEPT !.warnings = Some(stderr_output)]
        /\ (result.success /\ result.session_id /= <<>>)
              => (ret.success /\ IsNone(ret.error))

\* A successful run with text and a session id whose child wrote on stderr
C19_Witness ==
    /\ CompletedRun
    /\ child.status.success
    /\ stderr_output = <<"e">>
    /\ lines_read = <<LAssistant>>
    /\ ret.success
    /\ IsNone(ret.error)
    /\ ret.warnings = Some(<<"e">>)

\* ---- C20 ----
\* The stderr task reads the line at the head of the pipe
ReadsStderrLine ==
    /\ stderr_pc = "loop"
    /\ err_pipe /= <<>>
    /\ err_pipe' = Tail(err_pipe)

StderrMarkerCount(text) ==
    Cardinality({i \in 1..Len(text) : text[i] = StderrTruncatedMarker[1]})

\* C20: the line that would push the stderr text over the ceiling makes
\* the task append the marker (after a newline when there is text) and
\* set the flag; from then on the text and the flag never change, so the
\* marker is there exactly once; and a line that was read, before or after
\* the truncation, leaves the task in its loop.
C20_StderrFrozen ==
    /\ [][stderr_truncated =>
             stderr_output' = stderr_output /\ stderr_truncated']_vars
    /\ [][(ReadsStderrLine /\ ~stderr_truncated
             /\ Len(stderr_output) + Len(Head(err_pipe)) + 1 > MAX_STDERR_SIZE) =>
             /\ stderr_truncated'
             /\ stderr_output' =
                   (IF stderr_output /= <<>> THEN stderr_output \o <<"\n">>
                    ELSE <<>>)
                   \o <<"[... stderr truncated due to size limit ...]">>]_vars
    /\ [][ReadsStderrLine => stderr_pc' = "loop"]_vars
    /\ [](StderrMarkerCount(stderr_output) = IF stderr_truncated THEN 1 ELSE 0)

\* The first line did not fit, a second line was read after the marker
C20_Witness ==
    /\ stderr_truncated
    /\ stderr_output = StderrTruncatedMarker
    /\ err_written = 2
    /\ err_pipe = <<>>
    /\ stderr_pc = "done"


\* ---- C21 ----
\* The loop over stdout, or the stderr task, consumed its stream up to the
\* end: the write end is closed and nothing is left in the pipe
StdoutDrained == out_closed /\ out_pipe = <<>>
StderrDrained == err_closed /\ err_pipe = <<>>

\* The loop over stdout was left by a failed read
StdoutReadFailed == IsSome(ret.error) /\ Contains(Unwrap(ret.error), IoErrorText)

\* C21 as stated: in every non-timeout run the result is finalized only
\* after stdout was read to its end of stream, the child exited, and the
\* stderr task reached the end of its stream and was joined.
C21_AsClaimed ==
    CompletedRun =>
        /\ StdoutDrained
        /\ ChildEnded(child)
        /\ StderrDrained
        /\ stderr_pc \in {"done", "failed"}

\* C21: in every non-timeout run the result is finalized only after the
\* loop over stdout has ended, the child has exited and the stderr task has
\* ended and been joined; each of the two readers ends at the end of its
\* stream, or before it at a failed read.
C21_BothDrainsEnd ==
    CompletedRun =>
        /\ ChildEnded(child)
        /\ stderr_pc \in {"done", "failed"}
        /\ StdoutDrained \/ StdoutReadFailed
        /\ StderrDrained \/ stderr_pc = "failed"

\* Both streams carried lines, both were read to their end, the child
\* exited by itself
C21_Witness ==
    /\ CompletedRun
    /\ child.state = "exited"
    /\ Len(lines_read) = out_written
    /\ out_written > 0
    /\ err_written > 0
    /\ stderr_output /= <<>>
    /\ stderr_pc = "done"
    /\ StdoutDrained
    /\ StderrDrained
    /\ ~StdoutReadFailed


\* ---- C22 ----
\* C22: with pipes of bounded capacity the child cannot stay blocked on a
\* full pipe while the run is in its loop over stdout: a full stderr pipe
\* is drained by the stderr task as long as that task runs, and a full
\* stdout pipe is drained by the loop as long as the run is in it.
C22_NoStall ==
    /\ (run_pc = "stdout" /\ stderr_pc = "loop" /\ Len(err_pipe) = PipeCap)
           ~> (Len(err_pipe) < PipeCap \/ stderr_pc /= "loop")
    /\ (run_pc = "stdout" /\ Len(out_pipe) = PipeCap)
           ~> (Len(out_pipe) < PipeCap \/ run_pc /= "stdout")

\* The stderr task emptied the pipe while the run was still waiting for
\* the first line of stdout of a live child
C22_Witness ==
    /\ run_pc = "stdout"
    /\ child.state = "running"
    /\ lines_read = <<>>
    /\ out_pipe = <<>>
    /\ ~out_closed
    /\ err_written = StderrLineLimit(profile)
    /\ err_pipe = <<>>
    /\ stderr_output /= <<>>
    /\ stderr_pc = "loop"


\* ---- C23 ----
\* C23: the argument vector of the child is, in this order, --print,
\* --output-format, stream-json, every extra flag in the caller's order,
\* then --resume and the session id only when a session id was given, then
\* the prompt as the last argument; no extra flag is dropped, duplicated
\* or reordered.
C23_ArgvOrder ==
    child_argv /= <<>> =>
        LET o == Unwrap(tool_opts)
            n == Len(o.additional_args)
            k == IF IsSome(o.session_id) THEN 2 ELSE 0
        IN /\ Len(child_argv) = 3 + n + k + 1
           /\ child_argv[1] = <<"--print">>
           /\ child_argv[2] = <<"--output-format">>
           /\ child_argv[3] = <<"stream-json">>
           /\ \A i \in 1..n : child_argv[3 + i] = o.additional_args[i]
           /\ IsSome(o.session_id) =>
                  /\ child_argv[3 + n + 1] = <<"--resume">>
                  /\ child_argv[3 + n + 2] = Unwrap(o.session_id)
           /\ child_argv[Len(child_argv)] = o.prompt

\* A child started with two different extra flags and a session to resume
C23_Witness ==
    /\ tool_pc = "running"
    /\ IsSome(tool_opts)
    /\ Unwrap(tool_opts).additional_args = <<(<<"-b">>), (<<"-a">>)>>
    /\ Unwrap(tool_opts).session_id = Some(<<"s">>)
    /\ Len(child_argv) = 8

\* ---- C24 ----
HasArg(argv, arg) == \E i \in DOMAIN argv : argv[i] = arg

\* C24: a tool call whose SESSION_ID is the empty string is treated like a
\* call without SESSION_ID: the child gets no --resume flag.
C24_AsClaimed ==
    (child_argv /= <<>> /\ tool_args.session_id = Some(<<>>)) =>
        /\ ~HasArg(child_argv, <<"--resume">>)
        /\ child_argv = BuildArgs(ToolOptions(ClaudeArgs(tool_args.prompt, None),
                                              Unwrap(tool_opts).additional_args))

\* ---- C25 ----
HasMember(json, key) == \E i \in DOMAIN json : json[i].key = key
MemberValues(json, key) == {json[i].val : i \in {j \in DOMAIN json : json[j].key = key}}

\* C25: in the serialized output each of agent_messages_truncated,
\* all_messages_truncated, error and warnings is present exactly when the
\* field of the result is true or set, and is never emitted as false or
\* null.
C25_AsClaimed ==
    tool_pc = "responded" =>
        LET r == Unwrap(tool_result)
            json == tool_response.json
        IN /\ HasMember(json, "agent_messages_truncated") <=> r.agent_messages_truncated
           /\ HasMember(json, "all_messages_truncated") <=> r.all_messages_truncated
           /\ HasMember(json, "error") <=> IsSome(r.error)
           /\ HasMember(json, "warnings") <=> IsSome(r.warnings)
           /\ \A key \in {"agent_messages_truncated", "all_messages_truncated"} :
                  MemberValues(json, key) \subseteq {<<"true">>}
           /\ \A key \in {"error", "warnings"} :
                  <<"null">> \notin MemberValues(json, key)


\* ---- C26 ----
\* The step in which the loop over stdout is left by a failed read, not by
\* the end of the stream
StdoutReadFaultStep ==
    /\ run_pc = "stdout"
    /\ run_pc' = "wait"
    /\ ~(out_pipe = <<>> /\ out_closed)

\* A failure other than a failed read: deadline, over-long line, line that
\* does not decode, result event with is_error, failed exit, no session id
FailureSeen ==
    \/ timed_out
    \/ \E i \in 1..Len(lines_read) : lines_read[i].kind \in {"truncated", "badjson"}
    \/ \E i \in 1..Len(lines_read) :
           /\ Parsed(i)
           /\ lines_read[i].ev.type_ = "result"
           /\ lines_read[i].ev.is_error = "true"
    \/ ~child.status.success
    \/ ret.session_id = <<>>

\* C26 as stated: a failed read of the child's stdout makes run return Err,
\* like a failed spawn; every other failure is returned as Ok with success
\* == false.
C26_AsClaimed ==
    /\ [][StdoutReadFaultStep => returned' = "Err"]_vars
    /\ [](ReturnedOk /\ FailureSeen => ~ret.success)

\* C26: a failed read of the child's stdout is recorded in the result like
\* a line that does not decode and the run goes on to return Ok with
\* success == false; run returns Err only when the spawn or the wait for
\* the child fails; every other failure is returned as Ok with success ==
\* false.
C26_FaultsAreResults ==
    /\ [][StdoutReadFaultStep =>
             /\ returned' = "none"
             /\ ~result'.success
             /\ ErrorHasText(result', ParseErrorMsg(IoErrorText, <<>>))]_vars
    /\ [](CompletedRun /\ ~StdoutDrained => ~ret.success /\ StdoutReadFailed)
    /\ [][returned = "none" /\ returned' = "Err" => run_pc \in {"start", "wait"}]_vars
    /\ [](ReturnedOk /\ FailureSeen => ~ret.success)

\* A read failed after one event, with a line left in the pipe; the child
\* exited 0 and the run returned a result
C26_Witness ==
    /\ CompletedRun
    /\ lines_read = <<LAssistant>>
    /\ out_pipe /= <<>>
    /\ child.status.success
    /\ ret.session_id /= <<>>
    /\ ~ret.success
    /\ ret.error = Some(ParseErrorMsg(IoErrorText, <<>>))


\* ---- C27 ----
\* The i-th line read is an event that carries a non-empty string session_id
CarriesSessionId(i) ==
    /\ lines_read[i].kind = "object"
    /\ lines_read[i].ev.sid_kind = "str"
    /\ lines_read[i].ev.session_id /= <<>>

\* The session_id of the last of the first n lines that was parsed and
\* carried one; the empty string if there is none
RECURSIVE LastSessionId(_)
LastSessionId(n) ==
    IF n = 0 THEN <<>>
    ELSE IF Parsed(n) /\ CarriesSessionId(n) THEN lines_read[n].ev.session_id
    ELSE LastSessionId(n - 1)

\* The step reads one more line of stdout
ReadsLine == Len(lines_read') = Len(lines_read) + 1
\* ... which is an event that carries a non-empty string session_id
ReadsSessionId ==
    /\ ReadsLine
    /\ lines_read'[Len(lines_read')].kind = "object"
    /\ lines_read'[Len(lines_read')].ev.sid_kind = "str"
    /\ lines_read'[Len(lines_read')].ev.session_id /= <<>>

\* C27: the session id of the result is last-writer-wins over the stdout
\* stream: after any prefix of parsed events it is the session_id of the
\* most recent event that carried a non-empty string session_id, and an
\* event whose session_id is missing, empty or not a string leaves it as
\* it is.
C27_LastSessionIdWins ==
    /\ [](RunAlive /\ returned = "none" => result.session_id = LastSessionId(Len(lines_read)))
    /\ [][(ReadsLine /\ ~ReadsSessionId) => result'.session_id = result.session_id]_vars
    /\ [](CompletedRun => ret.session_id = LastSessionId(Len(lines_read)))

\* Two events with different session ids: the later one is the result's
C27_Witness ==
    /\ lines_read = <<LSystem, LAssistant>>
    /\ run_pc = "stdout"
    /\ result.session_id = <<"s">>
    /\ Len(result.all_messages) = 2


\* ---- C28 ----
\* A line of stdout that was over-long or failed to decode has been read
ParsingStopped ==
    \E i \in 1..Len(lines_read) : lines_read[i].kind \in {"truncated", "badjson"}

\* C28: after the first parse failure or over-long line on stdout no later
\* line is parsed: session_id, agent_messages, all_messages and the two
\* truncation flags stay as they were at that point while the rest of
\* stdout is read, and they are what a run that completes returns.
C28_FrozenAfterParseError ==
    /\ [][(ParsingStopped /\ ~DropStep) =>
             /\ result'.session_id = result.session_id
             /\ result'.agent_messages = result.agent_messages
             /\ result'.agent_messages_truncated = result.agent_messages_truncated
             /\ result'.all_messages = result.all_messages
             /\ result'.all_messages_truncated = result.all_messages_truncated
             /\ all_messages_size' = all_messages_size]_vars
    /\ [](RunAlive /\ ParsingStopped => parse_error_seen)
    /\ [](CompletedRun /\ ParsingStopped =>
             /\ ret.session_id = result.session_id
             /\ ret.agent_messages = result.agent_messages
             /\ ret.agent_messages_truncated = result.agent_messages_truncated
             /\ ret.all_messages = result.all_messages
             /\ ret.all_messages_truncated = result.all_messages_truncated)

\* An event with a session id and text was read after a line that did not
\* decode, and left no trace in the result that was returned
C28_Witness ==
    /\ CompletedRun
    /\ lines_read = <<LBadJson, LAssistant>>
    /\ ret.session_id = <<>>
    /\ ret.agent_messages = <<>>
    /\ ret.all_messages = <<>>
    /\ ~ret.all_messages_truncated


\* ---- C29 ----
\* The step reads a result event with a string result field, and parses it
ReadsResultText ==
    /\ ReadsLine
    /\ ~parse_error_seen
    /\ lines_read'[Len(lines_read')].kind = "object"
    /\ lines_read'[Len(lines_read')].ev.type_ = "result"
    /\ lines_read'[Len(lines_read')].ev.result_kind = "str"

RECURSIVE SumSizes(_)
SumSizes(events) ==
    IF events = <<>> THEN 0 ELSE Head(events).size + SumSizes(Tail(events))

\* The step reads an event that is parsed and does not fit in what is left
\* of the byte ceiling of the raw-event collection
ReadsDroppedEvent ==
    /\ ReadsLine
    /\ ~parse_error_seen
    /\ lines_read'[Len(lines_read')].kind = "object"
    /\ all_messages_size + lines_read'[Len(lines_read')].ev.size > MAX_ALL_MESSAGES_SIZE

\* C30: an event that is left out of the raw-event collection because the
\* byte ceiling would be passed still updates the rest of the result as a
\* collected event does: its session_id, its assistant or result text and
\* its is_error flag are applied; and the serialized sizes of the collected
\* events never sum to more than the ceiling.
C30_DroppedEventStillApplied ==
    /\ [][ReadsDroppedEvent =>
             LET ev == lines_read'[Len(lines_read')].ev
                 applied == ClassifyEvent(result, ev)
             IN /\ result'.all_messages = result.all_messages
                /\ all_messages_size' = all_messages_size
                /\ result'.all_messages_truncated
                /\ result'.session_id =
                      IF ev.sid_kind = "str" /\ ev.session_id /= <<>>
                      THEN ev.session_id ELSE result.session_id
                /\ result'.agent_messages = applied.agent_messages
                /\ result'.agent_messages_truncated = applied.agent_messages_truncated
                /\ result'.success = applied.success
                /\ result'.error = applied.error
                /\ (ev.type_ = "result" /\ ev.is_error = "true") => ~result'.success]_vars
    /\ [](RunAlive =>
             /\ SumSizes(result.all_messages) <= MAX_ALL_MESSAGES_SIZE
             /\ (returned = "none" => SumSizes(result.all_messages) = all_messages_size))
    /\ [](CompletedRun => SumSizes(ret.all_messages) <= MAX_ALL_MESSAGES_SIZE)

\* An error result larger than the ceiling was read after an assistant
\* event: it is not collected, its session id, text and error are applied
C30_Witness ==
    /\ run_pc = "stdout"
    /\ lines_read = <<LAssistant, LBigResultError>>
    /\ Len(result.all_messages) = 1
    /\ result.all_messages_truncated
    /\ result.session_id = <<"t">>
    /\ result.agent_messages = <<"a", "\n", "b">>
    /\ ~result.success
    /\ result.error = Some(ClaudeErrorMsg(<<"b">>))


\* ---- C31 ----
\* The call that returned read a record that the end of the stream ended,
\* not a newline
ReadPartialRecord ==
    /\ rl_pc = "idle"
    /\ rl_ret.kind = "Ok"
    /\ rl_start < Len(rl_stream)
    /\ FirstNewlineAfter(rl_stream, rl_start) = 0

\* C31: a stream that ends without a newline yields its last, partial
\* record as a read with bytes_read > 0 that is truncated only when the
\* record is longer than the cap, and leaves the reader at the end of the
\* stream; a read returns zero bytes exactly when it starts at the end of
\* the stream.
C31_PartialRecordThenEof ==
    /\ ReadPartialRecord =>
           /\ rl_ret.bytes_read = Min(Len(rl_stream) - rl_start, rl_max_len)
           /\ rl_ret.bytes_read > 0
           /\ rl_ret.truncated <=> (Len(rl_stream) - rl_start > rl_max_len)
           /\ rl_pos = Len(rl_stream)
    /\ (rl_pc = "idle" /\ rl_ret.kind = "Ok") =>
           (rl_ret.bytes_read = 0 <=> rl_start = Len(rl_stream))

\* The read after a partial record that followed a full line: zero bytes
C31_Witness ==
    /\ rl_pc = "idle"
    /\ rl_ret = ReadLineResult(0, FALSE)
    /\ rl_start = Len(rl_stream)
    /\ Len(rl_stream) >= 3
    /\ rl_stream[Len(rl_stream)] /= NL
    /\ \E i \in 1..(Len(rl_stream) - 1) : rl_stream[i] = NL


\* ---- C32 ----
\* C32: during one invocation success only moves from true to false: no
\* step of the loop over stdout sets it back to true, reconciliation and
\* validation keep a false, and the result of a run that timed out is
\* unsuccessful.
C32_SuccessOnlyFalls ==
    /\ [][(~DropStep /\ ~result.success) => ~result'.success]_vars
    /\ [](CompletedRun =>
             /\ ~result.success => ~reconciled.success
             /\ ~reconciled.success => ~ret.success)
    /\ [](ReturnedOk /\ timed_out => ~ret.success)
    /\ [][(returned = "Ok" /\ ~ret.success) => ~ret'.success]_vars

\* A result event without error came after one that reported an error; the
\* child exited 0 and the run is returned as unsuccessful
C32_Witness ==
    /\ CompletedRun
    /\ lines_read = <<LResultError, LResult>>
    /\ child.status.success
    /\ stderr_output = <<>>
    /\ ~ret.success


\* ---- C33 ----
\* C33: every result that run returns with success == false carries a
\* non-empty error string, whatever the stdout events, the exit status and
\* the stderr text are.
C33_AsClaimed ==
    (ReturnedOk /\ ~ret.success) => (IsSome(ret.error) /\ Unwrap(ret.error) /= <<>>)


\* ---- C34 ----
\* The i-th line read failed to decode and its diagnostic was recorded: no
\* line before it had stopped the parsing
RecordedParseError(i) ==
    /\ lines_read[i].kind = "badjson"
    /\ \A j \in 1..(i - 1) : lines_read[j].kind \notin {"truncated", "badjson"}

\* C34: once the diagnostic of a JSON parse error has been recorded it
\* stays contained in the error: no later stdout line, over-long lines
\* included, removes it from the error of run_internal's result, and the
\* error of the result of a run that completes contains it.
C34_AsClaimed ==
    /\ RunAlive =>
           \A i \in 1..Len(lines_read) :
               RecordedParseError(i) => ErrorHasText(result, Diagnostic(lines_read[i]))
    /\ CompletedRun =>
           \A i \in 1..Len(lines_read) :
               RecordedParseError(i) => ErrorHasText(ret, Diagnostic(lines_read[i]))


\* ---- C35 ----
\* The length of the accumulated text without the truncation marker, which
\* is its last element once the flag is set
TextLength(r) ==
    IF r.agent_messages_truncated
    THEN Len(r.agent_messages) - Len(AgentTruncatedMarker)
    ELSE Len(r.agent_messages)

\* C35: the accumulated assistant text, the truncation marker not counted
\* and the newline separators counted, is never longer than the ceiling of
\* the assistant text, whatever assistant and result events were read.
C35_AsClaimed ==
    /\ RunAlive => TextLength(result) <= MAX_AGENT_MESSAGES_SIZE
    /\ CompletedRun => TextLength(ret) <= MAX_AGENT_MESSAGES_SIZE


\* ---- C36 ----
\* The step reads a blank line, or a line that is JSON but no object
ReadsSkippedLine ==
    /\ ReadsLine
    /\ lines_read'[Len(lines_read')].kind \in {"blank", "nonobject"}

\* C36: a stdout line that is valid JSON but no object changes nothing in
\* the result - nothing is collected, no flag is set, no error recorded -
\* and does not stop the parsing of later lines; the same holds for a
\* blank line.
C36_SkippedLinesChangeNothing ==
    /\ [][ReadsSkippedLine =>
             /\ result' = result
             /\ all_messages_size' = all_messages_size
             /\ parse_error_seen' = parse_error_seen
             /\ child' = child
             /\ run_pc' = "stdout"]_vars
    /\ [](RunAlive /\ returned = "none" =>
             /\ ~parse_error_seen
             /\ result.session_id = LastSessionId(Len(lines_read))
             /\ Len(result.all_messages) =
                   Cardinality({i \in 1..Len(lines_read) : lines_read[i].kind = "object"}))

\* An event read after a JSON value that is no object, and one read after
\* a blank line, were parsed like any other
C36_Witness ==
    /\ run_pc = "stdout"
    /\ lines_read \in {<<LNonObject, LAssistant>>, <<LBlank, LAssistant>>}
    /\ result.session_id = <<"s">>
    /\ result.agent_messages = <<"a">>
    /\ Len(result.all_messages) = 1
    /\ result.success
    /\ ~parse_error_seen

====
